---- MODULE Spec2Model ----
(***************************************************************************)
(* Tenant-configuration core of customer-admin: SlackChannelService        *)
(* (validateTenantId, getSlackChannels / setSlackChannels,                 *)
(* channelToTenant / tenantToChannel, list/get/add/update/remove/pause/    *)
(* activate) run against the in-memory ConfigService and a GatewayService  *)
(* whose calls may fail.                                                   *)
(*                                                                         *)
(* Representation.  A JavaScript object is a function from its keys to    *)
(* its values; a property whose value is undefined and an absent property  *)
(* are the same thing (every read in the code goes through o.k, ?? or      *)
(* !== undefined, which do not tell them apart).  A string that the code   *)
(* inspects character by character (a tenant id) is a sequence of          *)
(* one-character strings; every other string is an atom.  Documents and    *)
(* inputs are the typed ones (OpenClawConfig, Partial<TenantConfig>).      *)
(***************************************************************************)
EXTENDS Integers, Sequences, FiniteSets, TLC

VARIABLES stored, last, restarts, okWrites, nOps, callers

vars == <<stored, last, restarts, okWrites, nOps, callers>>

----------------------------------------------------------------------------
(* Bounds *)

MaxOps == 2

----------------------------------------------------------------------------
(* JavaScript objects *)

EmptyObj == <<>>

\* { ...a, ...b }
Spread(a, b) == [k \in (DOMAIN a) \cup (DOMAIN b) |-> IF k \in DOMAIN b THEN b[k] ELSE a[k]]

\* { k: v }
Single(k, v) == [x \in {k} |-> v]

\* const { [k]: _removed, ...rest } = o
Without(o, k) == [x \in (DOMAIN o) \ {k} |-> o[x]]

\* A value that is not an object, where the document holds one in an
\* object's place: JSON null, or a primitive (a number, written as text).
JPrim(p) == [t |-> "primitive", text |-> p]
JNull == [t |-> "null"]

\* the numbers in use
Numbers == {JPrim("0"), JPrim("5")}

IsNullish(v) == v = JNull
IsPrimitive(v) == \E p \in Numbers : v = p

\* if (v): null and 0 are falsy, an object or another number is truthy
Truthy(v) == ~IsNullish(v) /\ v # JPrim("0")

\* what v?.<field> reads and { ...v } copies: an object's own properties, and
\* none for null or a number
Props(v) == IF IsNullish(v) \/ IsPrimitive(v) THEN EmptyObj ELSE v

\* o?.[k] used as a spread source: undefined spreads as {}, and so do null
\* and a number
Sub(o, k) == IF k \in DOMAIN o THEN Props(o[k]) ELSE EmptyObj

\* A string the code never looks into (a display name), kept as a sequence
\* of one piece so that it has the type of an id (name defaults to the id).
Text(t) == <<t>>

----------------------------------------------------------------------------
(* Tenant ids as character sequences *)

WhiteSpace == {" ", "\t", "\n"}

PathChars == {"/", "\\", "."}

MaxIdLen == 255

RECURSIVE TrimLeft(_)
TrimLeft(s) == IF s # <<>> /\ Head(s) \in WhiteSpace THEN TrimLeft(Tail(s)) ELSE s

RECURSIVE TrimRight(_)
TrimRight(s) ==
    IF s # <<>> /\ s[Len(s)] \in WhiteSpace THEN TrimRight(SubSeq(s, 1, Len(s) - 1)) ELSE s

\* String.prototype.trim
Trim(s) == TrimRight(TrimLeft(s))

\* /[\/\\\.]{2,}|\.\./.test(id)
HasTraversal(id) ==
    \/ \E i \in 1..(Len(id) - 1) : id[i] \in PathChars /\ id[i + 1] \in PathChars
    \/ \E i \in 1..(Len(id) - 1) : id[i] = "." /\ id[i + 1] = "."

ValidationError(msg) == [tag |-> "ValidationError", field |-> "id", message |-> msg]

\* validateTenantId without the length limit
validateTenantIdNoLimit(id) ==
    IF id = <<>> \/ Len(Trim(id)) = 0
    THEN [ok |-> FALSE, error |-> ValidationError("Tenant ID cannot be empty")]
    ELSE IF HasTraversal(id)
    THEN [ok |-> FALSE, error |-> ValidationError("Tenant ID contains path traversal characters")]
    ELSE [ok |-> TRUE, id |-> Trim(id)]

validateTenantIdTrimmedLength(id) ==
    IF id = <<>> \/ Len(Trim(id)) = 0
    THEN [ok |-> FALSE, error |-> ValidationError("Tenant ID cannot be empty")]
    ELSE IF HasTraversal(id)
    THEN [ok |-> FALSE, error |-> ValidationError("Tenant ID contains path traversal characters")]
    ELSE IF Len(Trim(id)) > MaxIdLen
    THEN [ok |-> FALSE, error |-> ValidationError("Tenant ID too long (max 255)")]
    ELSE [ok |-> TRUE, id |-> Trim(id)]

\* validateTenantId succeeding with the id as given
validateTenantIdUntrimmed(id) ==
    IF id = <<>> \/ Len(Trim(id)) = 0
    THEN [ok |-> FALSE, error |-> ValidationError("Tenant ID cannot be empty")]
    ELSE IF HasTraversal(id)
    THEN [ok |-> FALSE, error |-> ValidationError("Tenant ID contains path traversal characters")]
    ELSE IF Len(id) > MaxIdLen
    THEN [ok |-> FALSE, error |-> ValidationError("Tenant ID too long (max 255)")]
    ELSE [ok |-> TRUE, id |-> id]

validateTenantId(id) ==
    IF id = <<>> \/ Len(Trim(id)) = 0
    THEN [ok |-> FALSE, error |-> ValidationError("Tenant ID cannot be empty")]
    ELSE IF HasTraversal(id)
    THEN [ok |-> FALSE, error |-> ValidationError("Tenant ID contains path traversal characters")]
    ELSE IF Len(id) > MaxIdLen
    THEN [ok |-> FALSE, error |-> ValidationError("Tenant ID too long (max 255)")]
    ELSE [ok |-> TRUE, id |-> Trim(id)]

\* Ids given to the operations
Constructor == <<"c", "o", "n", "s", "t", "r", "u", "c", "t", "o", "r">>
IdA == <<"a">>
IdB == <<"b">>
PaddedA == <<" ", "a", " ">>
EmptyId == <<>>
BlankId == <<" ", " ", " ">>
TraversalId == <<".", ".", "/", ".", ".", "/", "e", "t", "c", "/", "p", "a", "s", "s", "w", "d">>
LongId == [i \in 1..(MaxIdLen + 1) |-> "a"]

Ids == {IdA, IdB, PaddedA, EmptyId, BlankId, TraversalId, LongId, Constructor}

\* Ids typed character by character: every string of at most MaxTypedLen
\* characters over IdChars, and ids on both sides of the length limit
MaxTypedLen == 3
IdChars == {"a", " ", ".", "/", "\\"}
Repeat(c, n) == [i \in 1..n |-> c]
ShortIds == UNION {[1..n -> IdChars] : n \in 0..MaxTypedLen}
LimitIds ==
    { Repeat("a", MaxIdLen),
      Repeat("a", MaxIdLen - 2) \o <<" ", " ">>,
      <<" ">> \o Repeat("a", MaxIdLen - 1) \o <<" ">>,
      Repeat("a", MaxIdLen - 1) \o <<"/">>,
      Repeat("a", MaxIdLen) \o <<"/">>,
      Repeat("a", MaxIdLen) \o <<".", ".">> }
TypedIds == ShortIds \cup LimitIds \cup {LongId}

\* validateTenantId is pure: its results for the ids in use, computed once
Validated == [id \in Ids |-> validateTenantId(id)]
ValidatedTyped == [id \in TypedIds \ Ids |-> validateTenantId(id)]

\* const validId = yield* validateTenantId(tenantId)
Checked(tenantId) ==
    IF tenantId \in Ids THEN Validated[tenantId] ELSE ValidatedTyped[tenantId]

----------------------------------------------------------------------------
(* Directory access *)

DEFAULT_TOOL_DENY == <<"exec", "write", "edit", "gateway", "cron", "message">>

\* config.channels?.slack?.channels ?? {}
getSlackChannels(config) ==
    LET slack == Sub(Sub(config, "channels"), "slack")
    IN  IF "channels" \in DOMAIN slack THEN slack["channels"] ELSE EmptyObj

\* setSlackChannels building the path afresh instead of spreading the old one
setSlackChannelsFresh(config, channels) ==
    Single("channels", Single("slack", Single("channels", channels)))

setSlackChannels(config, channels) ==
    Spread(config,
           Single("channels",
                  Spread(Sub(config, "channels"),
                         Single("slack",
                                Spread(Sub(Sub(config, "channels"), "slack"),
                                       Single("channels", channels))))))

----------------------------------------------------------------------------
(* Property lookup channels[validId] on a plain object *)

\* Properties every plain object inherits from Object.prototype, each with
\* the properties that reading its value yields (Object.name is "Object").
ObjectPrototype == Constructor :> [name |-> Text("Object")]

\* channels[key]: truthy tells whether the value passes `if (ch)`, props is
\* what ch.<field> reads, own is what { ...ch } copies (the own enumerable
\* properties; an inherited function has none).
Lookup(channels, key) ==
    IF key \in DOMAIN channels
    THEN [truthy |-> Truthy(channels[key]), props |-> Props(channels[key]),
          own |-> Props(channels[key])]
    ELSE IF key \in DOMAIN ObjectPrototype
    THEN [truthy |-> TRUE, props |-> ObjectPrototype[key], own |-> EmptyObj]
    ELSE [truthy |-> FALSE, props |-> EmptyObj, own |-> EmptyObj]

\* o.k ?? d
OrElse(o, k, d) == IF k \in DOMAIN o THEN o[k] ELSE d

----------------------------------------------------------------------------
(* Record conversions *)

ChannelPrefix == <<"#", "c", "l", "i", "e", "n", "t", "-">>

\* channelToTenant defaulting name and systemPrompt with || (an empty string
\* gives way to the default)
channelToTenantFalsyDefaults(id, ch) ==
    [id           |-> id,
     name         |-> IF "name" \in DOMAIN ch /\ ch["name"] # Text("") THEN ch["name"] ELSE id,
     channelName  |-> ChannelPrefix \o id,
     systemPrompt |-> IF "systemPrompt" \in DOMAIN ch /\ ch["systemPrompt"] # ""
                      THEN ch["systemPrompt"] ELSE "default prompt",
     tools        |-> OrElse(ch, "tools", [deny |-> DEFAULT_TOOL_DENY]),
     users        |-> OrElse(ch, "users", <<>>),
     enabled      |-> ~("enabled" \in DOMAIN ch /\ ch["enabled"] = FALSE),
     paid         |-> ("paid" \in DOMAIN ch /\ ch["paid"] = TRUE),
     groupPolicy  |-> IF "groupPolicy" \in DOMAIN ch /\ ch["groupPolicy"] = "open"
                      THEN "open" ELSE "allowlist"]

\* channelToTenant reading paid as the HTTP binding does (on unless stored false)
channelToTenantPaidUnlessFalse(id, ch) ==
    [id           |-> id,
     name         |-> OrElse(ch, "name", id),
     channelName  |-> ChannelPrefix \o id,
     systemPrompt |-> OrElse(ch, "systemPrompt", ""),
     tools        |-> OrElse(ch, "tools", [deny |-> DEFAULT_TOOL_DENY]),
     users        |-> OrElse(ch, "users", <<>>),
     enabled      |-> ~("enabled" \in DOMAIN ch /\ ch["enabled"] = FALSE),
     paid         |-> ~("paid" \in DOMAIN ch /\ ch["paid"] = FALSE),
     groupPolicy  |-> IF "groupPolicy" \in DOMAIN ch /\ ch["groupPolicy"] = "open"
                      THEN "open" ELSE "allowlist"]

channelToTenant(id, ch) ==
    [id           |-> id,
     name         |-> OrElse(ch, "name", id),
     channelName  |-> ChannelPrefix \o id,
     systemPrompt |-> OrElse(ch, "systemPrompt", ""),
     tools        |-> OrElse(ch, "tools", [deny |-> DEFAULT_TOOL_DENY]),
     users        |-> OrElse(ch, "users", <<>>),
     enabled      |-> ~("enabled" \in DOMAIN ch /\ ch["enabled"] = FALSE),
     paid         |-> ("paid" \in DOMAIN ch /\ ch["paid"] = TRUE),
     groupPolicy  |-> IF "groupPolicy" \in DOMAIN ch /\ ch["groupPolicy"] = "open"
                      THEN "open" ELSE "allowlist"]

\* tenantToChannel defaulting an absent tool policy to an empty deny list
tenantToChannelPermissive(tenant) ==
    Spread([k \in (DOMAIN tenant) \cap {"name", "systemPrompt"} |-> tenant[k]],
           [tools       |-> OrElse(tenant, "tools", [deny |-> <<>>]),
            users       |-> OrElse(tenant, "users", <<>>),
            enabled     |-> OrElse(tenant, "enabled", TRUE),
            paid        |-> OrElse(tenant, "paid", FALSE),
            groupPolicy |-> OrElse(tenant, "groupPolicy", "allowlist")])

\* name and systemPrompt are copied as they are (undefined stays undefined);
\* the other five fields are defaulted.
tenantToChannel(tenant) ==
    Spread([k \in (DOMAIN tenant) \cap {"name", "systemPrompt"} |-> tenant[k]],
           [tools       |-> OrElse(tenant, "tools", [deny |-> DEFAULT_TOOL_DENY]),
            users       |-> OrElse(tenant, "users", <<>>),
            enabled     |-> OrElse(tenant, "enabled", TRUE),
            paid        |-> OrElse(tenant, "paid", FALSE),
            groupPolicy |-> OrElse(tenant, "groupPolicy", "allowlist")])

----------------------------------------------------------------------------
(* Collaborators and results *)

ConfigReadError(msg) == [tag |-> "ConfigReadError", message |-> msg]
ConfigWriteError(msg) == [tag |-> "ConfigWriteError", message |-> msg]
GatewayError(msg) == [tag |-> "GatewayError", message |-> msg]
TenantNotFoundError(id) == [tag |-> "TenantNotFoundError", tenantId |-> id]
TenantAlreadyExistsError(id) == [tag |-> "TenantAlreadyExistsError", tenantId |-> id]

\* An exception thrown inside the generator: the effect dies with it, outside
\* the typed failures
Die(defect) == [tag |-> "Die", defect |-> defect]

Success(v) == [tag |-> "Success", value |-> v]

Void == "void"

\* One collaborator call and how it ended ("ok" or the failure's message)
Call(method, outcome) == [method |-> method, outcome |-> outcome]

\* What one run of an operation leaves behind: its result, the collaborator
\* calls it issued in order, and the document the store then holds.
Outcome(result, calls, doc) == [result |-> result, calls |-> calls, doc |-> doc]

\* WriteThenRestart skipping the restart when the document did not change
WriteThenRestartIfChanged(current, updated, value, wr, rs) ==
    IF wr # "ok"
    THEN Outcome(ConfigWriteError(wr), <<Call("read", "ok"), Call("write", wr)>>, current)
    ELSE IF updated = current
    THEN Outcome(Success(value), <<Call("read", "ok"), Call("write", "ok")>>, updated)
    ELSE IF rs # "ok"
    THEN Outcome(GatewayError(rs),
                 <<Call("read", "ok"), Call("write", "ok"), Call("restart", rs)>>, updated)
    ELSE Outcome(Success(value),
                 <<Call("read", "ok"), Call("write", "ok"), Call("restart", "ok")>>, updated)

\* WriteThenRestart putting the old document back when the restart fails
WriteThenRestartRollback(current, updated, value, wr, rs) ==
    IF wr # "ok"
    THEN Outcome(ConfigWriteError(wr), <<Call("read", "ok"), Call("write", wr)>>, current)
    ELSE IF rs # "ok"
    THEN Outcome(GatewayError(rs),
                 <<Call("read", "ok"), Call("write", "ok"), Call("restart", rs)>>, current)
    ELSE Outcome(Success(value),
                 <<Call("read", "ok"), Call("write", "ok"), Call("restart", "ok")>>, updated)

\* WriteThenRestart catching a failed restart and returning the value
WriteThenRestartSwallow(current, updated, value, wr, rs) ==
    IF wr # "ok"
    THEN Outcome(ConfigWriteError(wr), <<Call("read", "ok"), Call("write", wr)>>, current)
    ELSE Outcome(Success(value),
                 <<Call("read", "ok"), Call("write", "ok"), Call("restart", rs)>>, updated)

\* WriteThenRestart reloading the gateway before it writes
RestartThenWrite(current, updated, value, wr, rs) ==
    IF rs # "ok"
    THEN Outcome(GatewayError(rs), <<Call("read", "ok"), Call("restart", rs)>>, current)
    ELSE IF wr # "ok"
    THEN Outcome(ConfigWriteError(wr),
                 <<Call("read", "ok"), Call("restart", "ok"), Call("write", wr)>>, current)
    ELSE Outcome(Success(value),
                 <<Call("read", "ok"), Call("restart", "ok"), Call("write", "ok")>>, updated)

\* yield* config.write(updated); yield* gateway.restart(); return value
WriteThenRestart(current, updated, value, wr, rs) ==
    IF wr # "ok"
    THEN Outcome(ConfigWriteError(wr), <<Call("read", "ok"), Call("write", wr)>>, current)
    ELSE IF rs # "ok"
    THEN Outcome(GatewayError(rs),
                 <<Call("read", "ok"), Call("write", "ok"), Call("restart", rs)>>, updated)
    ELSE Outcome(Success(value),
                 <<Call("read", "ok"), Call("write", "ok"), Call("restart", "ok")>>, updated)

----------------------------------------------------------------------------
(* CRUD operations *)

\* channelToTenant(id, ch) reads ch.name first: on a null entry that read
\* throws a TypeError
listTenants(current, rd) ==
    IF rd # "ok"
    THEN Outcome(ConfigReadError(rd), <<Call("read", rd)>>, current)
    ELSE LET channels == getSlackChannels(current)
         IN  IF \E id \in DOMAIN channels : IsNullish(channels[id])
             THEN Outcome(Die("TypeError: Cannot read properties of null (reading 'name')"),
                          <<Call("read", "ok")>>, current)
             ELSE Outcome(Success({channelToTenant(id, Props(channels[id])) :
                                       id \in DOMAIN channels}),
                          <<Call("read", "ok")>>, current)

\* getTenant that reloads the gateway after a successful lookup
getTenantReloading(current, tenantId, rd) ==
    LET v == Checked(tenantId) IN
    IF ~v.ok THEN Outcome(v.error, <<>>, current)
    ELSE IF rd # "ok" THEN Outcome(ConfigReadError(rd), <<Call("read", rd)>>, current)
    ELSE LET ch == Lookup(getSlackChannels(current), v.id)
         IN  IF ~ch.truthy
             THEN Outcome(TenantNotFoundError(v.id), <<Call("read", "ok")>>, current)
             ELSE Outcome(Success(channelToTenant(v.id, ch.props)),
                          <<Call("read", "ok"), Call("restart", "ok")>>, current)

getTenant(current, tenantId, rd) ==
    LET v == Checked(tenantId) IN
    IF ~v.ok THEN Outcome(v.error, <<>>, current)
    ELSE IF rd # "ok" THEN Outcome(ConfigReadError(rd), <<Call("read", rd)>>, current)
    ELSE LET ch == Lookup(getSlackChannels(current), v.id)
         IN  IF ~ch.truthy
             THEN Outcome(TenantNotFoundError(v.id), <<Call("read", "ok")>>, current)
             ELSE Outcome(Success(channelToTenant(v.id, ch.props)), <<Call("read", "ok")>>, current)

\* addTenant without the existence check
addTenantOverwriting(current, tenantId, data, rd, wr, rs) ==
    LET v == Checked(tenantId) IN
    IF ~v.ok THEN Outcome(v.error, <<>>, current)
    ELSE IF rd # "ok" THEN Outcome(ConfigReadError(rd), <<Call("read", rd)>>, current)
    ELSE LET channels == getSlackChannels(current)
             newChannel ==
                 tenantToChannel(Spread(data, [enabled |-> OrElse(data, "enabled", TRUE)]))
             updated == setSlackChannels(current, Spread(channels, Single(v.id, newChannel)))
         IN  WriteThenRestart(current, updated, channelToTenant(v.id, newChannel), wr, rs)

\* addTenant returning the supplied fields over the stored record
addTenantEchoingData(current, tenantId, data, rd, wr, rs) ==
    LET v == Checked(tenantId) IN
    IF ~v.ok THEN Outcome(v.error, <<>>, current)
    ELSE IF rd # "ok" THEN Outcome(ConfigReadError(rd), <<Call("read", rd)>>, current)
    ELSE LET channels == getSlackChannels(current)
         IN  IF Lookup(channels, v.id).truthy
             THEN Outcome(TenantAlreadyExistsError(v.id), <<Call("read", "ok")>>, current)
             ELSE LET newChannel ==
                          tenantToChannel(Spread(data, [enabled |-> OrElse(data, "enabled", TRUE)]))
                      updated ==
                          setSlackChannels(current, Spread(channels, Single(v.id, newChannel)))
                  IN  WriteThenRestart(current, updated, Spread(channelToTenant(v.id, newChannel), data), wr, rs)

addTenant(current, tenantId, data, rd, wr, rs) ==
    LET v == Checked(tenantId) IN
    IF ~v.ok THEN Outcome(v.error, <<>>, current)
    ELSE IF rd # "ok" THEN Outcome(ConfigReadError(rd), <<Call("read", rd)>>, current)
    ELSE LET channels == getSlackChannels(current)
         IN  IF Lookup(channels, v.id).truthy
             THEN Outcome(TenantAlreadyExistsError(v.id), <<Call("read", "ok")>>, current)
             ELSE LET newChannel ==
                          tenantToChannel(Spread(data, [enabled |-> OrElse(data, "enabled", TRUE)]))
                      updated ==
                          setSlackChannels(current, Spread(channels, Single(v.id, newChannel)))
                  IN  WriteThenRestart(current, updated, channelToTenant(v.id, newChannel), wr, rs)

UpdatableFields == {"name", "systemPrompt", "tools", "users", "enabled", "paid", "groupPolicy"}

\* MergeFields replacing the record by the supplied fields
ReplaceFields(existing, data) == [k \in (DOMAIN data) \cap UpdatableFields |-> data[k]]

\* { ...existing, ...(data.f !== undefined && { f: data.f }) for the seven fields }
MergeFields(existing, data) ==
    Spread(existing, [k \in (DOMAIN data) \cap UpdatableFields |-> data[k]])

updateTenant(current, tenantId, data, rd, wr, rs) ==
    LET v == Checked(tenantId) IN
    IF ~v.ok THEN Outcome(v.error, <<>>, current)
    ELSE IF rd # "ok" THEN Outcome(ConfigReadError(rd), <<Call("read", rd)>>, current)
    ELSE LET channels == getSlackChannels(current)
             existing == Lookup(channels, v.id)
         IN  IF ~existing.truthy
             THEN Outcome(TenantNotFoundError(v.id), <<Call("read", "ok")>>, current)
             ELSE LET merged == MergeFields(existing.own, data)
                      updated == setSlackChannels(current, Spread(channels, Single(v.id, merged)))
                  IN  WriteThenRestart(current, updated, channelToTenant(v.id, merged), wr, rs)

removeTenant(current, tenantId, rd, wr, rs) ==
    LET v == Checked(tenantId) IN
    IF ~v.ok THEN Outcome(v.error, <<>>, current)
    ELSE IF rd # "ok" THEN Outcome(ConfigReadError(rd), <<Call("read", rd)>>, current)
    ELSE LET channels == getSlackChannels(current)
         IN  IF ~Lookup(channels, v.id).truthy
             THEN Outcome(TenantNotFoundError(v.id), <<Call("read", "ok")>>, current)
             ELSE WriteThenRestart(current, setSlackChannels(current, Without(channels, v.id)),
                                   Void, wr, rs)

\* pauseTenant that also empties the user list
pauseTenantRevokingUsers(current, tenantId, rd, wr, rs) ==
    updateTenant(current, tenantId, [enabled |-> FALSE, users |-> <<>>], rd, wr, rs)

pauseTenant(current, tenantId, rd, wr, rs) ==
    updateTenant(current, tenantId, [enabled |-> FALSE], rd, wr, rs)

activateTenant(current, tenantId, rd, wr, rs) ==
    updateTenant(current, tenantId, [enabled |-> TRUE], rd, wr, rs)

----------------------------------------------------------------------------
(* Inputs and initial documents *)

DataSet ==
    { EmptyObj,
      [systemPrompt |-> "x"],
      [name |-> Text("New Client"), users |-> <<"U100">>, tools |-> [deny |-> <<>>]],
      [enabled |-> FALSE, paid |-> TRUE, groupPolicy |-> "open"] }

\* configWithTenant's record
AcmeRecord ==
    [name |-> Text("Acme Corp"), systemPrompt |-> "You are Acme's assistant.",
     tools |-> [deny |-> <<"exec", "write", "edit">>], users |-> <<"U001", "U002">>,
     enabled |-> TRUE, paid |-> TRUE, groupPolicy |-> "allowlist"]

\* a record written before the service existed: no tool policy, no flags,
\* and a key the service does not know
LegacyRecord == [allow |-> TRUE, systemPrompt |-> "Dental prompt"]

InitSubMaps == { EmptyObj, IdA :> AcmeRecord, (IdA :> AcmeRecord) @@ (IdB :> LegacyRecord) }

emptyConfig == [channels |-> EmptyObj]

InitDocs ==
    {emptyConfig}
    \cup {[gateway |-> [port |-> 18789],
           channels |-> [discord |-> [enabled |-> FALSE], slack |-> [groupPolicy |-> "open"]]]}
    \cup {[gateway |-> [port |-> 18789],
           channels |-> [discord |-> [enabled |-> FALSE],
                         slack |-> [groupPolicy |-> "open", channels |-> sub]]] :
          sub \in InitSubMaps}

NoOp == [op |-> "none", id |-> EmptyId, data |-> EmptyObj, pre |-> emptyConfig,
         result |-> [tag |-> "None"], calls |-> <<>>]

----------------------------------------------------------------------------
(* State machine: one caller issuing operations one after another *)

Init ==
    /\ stored \in InitDocs
    /\ last = NoOp
    /\ restarts = 0
    /\ okWrites = 0
    /\ nOps = 0
    /\ callers = EmptyObj

\* calls to `method` among calls; with okOnly, only those that succeeded
Count(calls, method, okOnly) ==
    Cardinality({i \in 1..Len(calls) :
                    calls[i].method = method /\ (okOnly => calls[i].outcome = "ok")})

\* Which collaborator call fails during one operation, if any.  Calls
\* after the first failure are never issued, so one fault per run is every
\* case.
Faults == {"none", "read", "write", "restart"}

FailureOf == [read |-> "EIO", write |-> "ENOSPC", restart |-> "unreachable"]

\* how the call to `method` ends under `fault`
Try(method, fault) == IF fault = method THEN FailureOf[method] ELSE "ok"

\* the fault was met by a call the operation issued
Manifest(fault, calls) ==
    fault = "none" \/ \E i \in 1..Len(calls) : calls[i].method = fault /\ calls[i].outcome # "ok"

\* The store holds o.doc afterwards; the mock gateway's call list grows by
\* the restarts issued.
Apply(op, id, data, fault, outcome) ==
    /\ nOps < MaxOps
    /\ LET o == outcome
       IN  /\ Manifest(fault, o.calls)
           /\ stored' = o.doc
           /\ last' = [op |-> op, id |-> id, data |-> data, pre |-> stored,
                       result |-> o.result, calls |-> o.calls]
           /\ restarts' = restarts + Count(o.calls, "restart", FALSE)
           /\ okWrites' = okWrites + Count(o.calls, "write", TRUE)
           /\ nOps' = nOps + 1
           /\ UNCHANGED callers

List ==
    \E f \in Faults :
        Apply("list", EmptyId, EmptyObj, f, listTenants(stored, Try("read", f)))

Get ==
    \E id \in Ids, f \in Faults :
        Apply("get", id, EmptyObj, f, getTenant(stored, id, Try("read", f)))

Add ==
    \E id \in Ids, data \in DataSet, f \in Faults :
        Apply("add", id, data, f,
              addTenant(stored, id, data, Try("read", f), Try("write", f), Try("restart", f)))

Update ==
    \E id \in Ids, data \in DataSet, f \in Faults :
        Apply("update", id, data, f,
              updateTenant(stored, id, data, Try("read", f), Try("write", f), Try("restart", f)))

Remove ==
    \E id \in Ids, f \in Faults :
        Apply("remove", id, EmptyObj, f,
              removeTenant(stored, id, Try("read", f), Try("write", f), Try("restart", f)))

Pause ==
    \E id \in Ids, f \in Faults :
        Apply("pause", id, [enabled |-> FALSE], f,
              pauseTenant(stored, id, Try("read", f), Try("write", f), Try("restart", f)))

Activate ==
    \E id \in Ids, f \in Faults :
        Apply("activate", id, [enabled |-> TRUE], f,
              activateTenant(stored, id, Try("read", f), Try("write", f), Try("restart", f)))

Next == List \/ Get \/ Add \/ Update \/ Remove \/ Pause \/ Activate

Spec == Init /\ [][Next]_vars

----------------------------------------------------------------------------
(* Vocabulary of the properties *)

Mutating == {"add", "update", "pause", "activate", "remove"}

RecordFields == {"name", "systemPrompt", "tools", "users", "enabled", "paid", "groupPolicy"}

Range(s) == {s[i] : i \in 1..Len(s)}

\* the tenant sub-map before and after the last operation
Before == getSlackChannels(last.pre)
After == getSlackChannels(stored)

\* the id the last operation addressed, without surrounding whitespace
Addressed == Trim(last.id)

\* a and b have the same keys and values, key k aside
SameExcept(a, b, k) ==
    /\ (DOMAIN a) \ {k} = (DOMAIN b) \ {k}
    /\ \A x \in (DOMAIN a) \ {k} : a[x] = b[x]

Issued(method) == \E i \in 1..Len(last.calls) : last.calls[i].method = method

Succeeded(method) ==
    \E i \in 1..Len(last.calls) : last.calls[i].method = method /\ last.calls[i].outcome = "ok"

Failed(method) ==
    \E i \in 1..Len(last.calls) : last.calls[i].method = method /\ last.calls[i].outcome # "ok"

\* what get(id) returns on the stored document when the read succeeds
GetNow(id) == getTenant(stored, id, "ok").result

\* what list() returns on the stored document when the read succeeds
ListNow == listTenants(stored, "ok").result.value

----------------------------------------------------------------------------
(* C1: after a successful update(id, data) on a tenant that is present,    *)
(* every field of the stored record that data does not supply (the seven   *)
(* record fields and any extra key the record carried) is as it was before *)
(* the call, and every supplied field holds the supplied value.            *)

C1_UpdateIsFieldMerge ==
    (/\ last.op = "update"
     /\ last.result.tag = "Success"
     /\ Addressed \in DOMAIN Before)
    => /\ Addressed \in DOMAIN After
       /\ \A f \in RecordFields \cup DOMAIN Before[Addressed] \cup DOMAIN After[Addressed] :
            IF f \in RecordFields /\ f \in DOMAIN last.data
            THEN f \in DOMAIN After[Addressed] /\ After[Addressed][f] = last.data[f]
            ELSE /\ f \in DOMAIN After[Addressed] <=> f \in DOMAIN Before[Addressed]
                 /\ f \in DOMAIN Before[Addressed] => After[Addressed][f] = Before[Addressed][f]

\* update(a, {systemPrompt: "x"}) on a tenant with non-empty users succeeded
C1_Witness ==
    /\ last.op = "update"
    /\ last.result.tag = "Success"
    /\ last.data = [systemPrompt |-> "x"]
    /\ Addressed \in DOMAIN Before
    /\ "users" \in DOMAIN Before[Addressed]
    /\ Before[Addressed]["users"] # <<>>
    /\ Before[Addressed]["systemPrompt"] # "x"

(* C2: every successful add, update, pause, activate or remove on tenant A *)
(* leaves every other tenant record, and every document key outside the    *)
(* tenant sub-map (top level, under channels, under channels.slack), equal  *)
(* to its value before the call.                                            *)

C2_SiblingsPreserved ==
    (last.op \in Mutating /\ Succeeded("write"))
    => /\ SameExcept(last.pre, stored, "channels")
       /\ SameExcept(Sub(last.pre, "channels"), Sub(stored, "channels"), "slack")
       /\ SameExcept(Sub(Sub(last.pre, "channels"), "slack"),
                     Sub(Sub(stored, "channels"), "slack"), "channels")
       /\ SameExcept(Before, After, Addressed)

\* a mutation of tenant a went through while tenant b and unrelated keys existed
C2_Witness ==
    /\ last.op \in Mutating
    /\ last.result.tag = "Success"
    /\ Addressed = IdA
    /\ IdB \in DOMAIN Before
    /\ "gateway" \in DOMAIN last.pre
    /\ "discord" \in DOMAIN last.pre["channels"]
    /\ "groupPolicy" \in DOMAIN last.pre["channels"]["slack"]
    /\ stored # last.pre

(* C3: after any sequence of add, update, pause, activate and remove calls *)
(* with any arguments, every record that get or list returns has a         *)
(* non-empty tools.deny list.                                              *)

C3_DenyListNeverEmpty ==
    /\ \A id \in Ids : GetNow(id).tag = "Success" => GetNow(id).value.tools.deny # <<>>
    /\ \A t \in ListNow : t.tools.deny # <<>>

(* C4: add(id, data) on a valid absent id, with data omitting tools,       *)
(* enabled, paid and groupPolicy and no collaborator failing, followed by  *)
(* get(id), returns enabled = true, paid = false, groupPolicy =            *)
(* "allowlist" and a deny list containing exec, write, edit, gateway,      *)
(* cron and message.                                                       *)

C4_RoundTripDefaults ==
    (/\ last.op = "add"
     /\ Validated[last.id].ok
     /\ Addressed \notin DOMAIN Before
     /\ (DOMAIN last.data) \cap {"tools", "enabled", "paid", "groupPolicy"} = {}
     /\ ~Failed("read") /\ ~Failed("write") /\ ~Failed("restart"))
    => /\ GetNow(last.id).tag = "Success"
       /\ GetNow(last.id).value.enabled = TRUE
       /\ GetNow(last.id).value.paid = FALSE
       /\ GetNow(last.id).value.groupPolicy = "allowlist"
       /\ {"exec", "write", "edit", "gateway", "cron", "message"}
              \subseteq Range(GetNow(last.id).value.tools.deny)

\* add(id, {}) created a tenant
C4_Witness ==
    /\ last.op = "add"
    /\ last.result.tag = "Success"
    /\ last.data = EmptyObj
    /\ Addressed \notin DOMAIN Before
    /\ Addressed \in DOMAIN After

(* C5: add(id, data) on an id that is already present fails with          *)
(* AlreadyExists carrying that id, issues no write and no restart, and     *)
(* leaves the stored document as it was.                                   *)

C5_AddExistingRejected ==
    (/\ last.op = "add"
     /\ Validated[last.id].ok
     /\ Addressed \in DOMAIN Before
     /\ ~Failed("read"))
    => /\ last.result.tag = "TenantAlreadyExistsError"
       /\ last.result.tenantId = Addressed
       /\ ~Issued("write")
       /\ ~Issued("restart")
       /\ stored = last.pre

\* add(a, data) was called while a was present
C5_Witness ==
    /\ last.op = "add"
    /\ last.id = IdA
    /\ IdA \in DOMAIN Before
    /\ last.result.tag = "TenantAlreadyExistsError"

(* C6: the number of restart() calls issued equals the number of mutating  *)
(* calls whose write succeeded (calls that leave the document unchanged    *)
(* included); within a call the restart is issued once, right after that   *)
(* call's successful write, as the call's last collaborator call.          *)

C6_OneRestartPerWrite ==
    /\ restarts = okWrites
    /\ (last.op \in Mutating /\ Succeeded("write")) => Issued("restart")
    /\ \A i \in 1..Len(last.calls) :
          last.calls[i].method = "restart"
          => /\ i = Len(last.calls)
             /\ i > 1
             /\ last.calls[i - 1] = Call("write", "ok")
             /\ \A j \in 1..Len(last.calls) : last.calls[j].method = "restart" => j = i

\* activating a tenant that is already enabled rewrote the same document
\* and still restarted the gateway
C6_Witness ==
    /\ last.op \in {"pause", "activate"}
    /\ last.result.tag = "Success"
    /\ stored = last.pre
    /\ restarts = nOps
    /\ restarts > 0

\* the document the last operation stores when no collaborator fails
Intended ==
    CASE last.op = "add"      -> addTenant(last.pre, last.id, last.data, "ok", "ok", "ok").doc
      [] last.op = "update"   -> updateTenant(last.pre, last.id, last.data, "ok", "ok", "ok").doc
      [] last.op = "pause"    -> pauseTenant(last.pre, last.id, "ok", "ok", "ok").doc
      [] last.op = "activate" -> activateTenant(last.pre, last.id, "ok", "ok", "ok").doc
      [] last.op = "remove"   -> removeTenant(last.pre, last.id, "ok", "ok", "ok").doc
      [] OTHER                -> last.pre

(* C7: when write() succeeds and restart() then fails during a mutating    *)
(* call, the store holds the mutated document (no rollback) and the call   *)
(* does not report plain success.                                          *)

C7_RestartFailureKeepsMutation ==
    (last.op \in Mutating /\ Succeeded("write") /\ Failed("restart"))
    => /\ stored = Intended
       /\ last.result.tag # "Success"
       /\ last.result.tag = "GatewayError"

\* a restart failed after a write that changed the document
C7_Witness ==
    /\ last.op \in Mutating
    /\ Succeeded("write")
    /\ Failed("restart")
    /\ stored # last.pre

(* C8: a failed read() ends the operation with that ConfigReadError and no *)
(* write or restart; a failed write() ends it with that ConfigWriteError   *)
(* and no restart; a failed restart() ends it with that GatewayError; no   *)
(* call is issued twice and no failure becomes a success.                  *)

C8_FailuresPropagate ==
    /\ \A i \in 1..Len(last.calls) :
          last.calls[i].outcome # "ok"
          => /\ i = Len(last.calls)
             /\ last.result.tag # "Success"
             /\ last.result.tag =
                    CASE last.calls[i].method = "read"    -> "ConfigReadError"
                      [] last.calls[i].method = "write"   -> "ConfigWriteError"
                      [] last.calls[i].method = "restart" -> "GatewayError"
             /\ last.result.message = last.calls[i].outcome
             /\ last.calls[i].method \in {"read", "write"} => stored = last.pre
    /\ \A i, j \in 1..Len(last.calls) : last.calls[i].method = last.calls[j].method => i = j
    /\ Failed("read") => ~Issued("write") /\ ~Issued("restart")
    /\ Failed("write") => ~Issued("restart")

\* a write failed in the middle of a mutating call
C8_Witness ==
    /\ last.op \in Mutating
    /\ Failed("write")
    /\ last.result.tag = "ConfigWriteError"

\* the spec's four ways for an id to be rejected
EmptyOrBlank(id) == \A i \in 1..Len(id) : id[i] \in WhiteSpace
ContainsTraversal(id) ==
    \E i \in 1..(Len(id) - 1) : id[i] \in {".", "/", "\\"} /\ id[i + 1] \in {".", "/", "\\"}
TooLong(id) == Len(id) > 255

(* C9: add, get, update, pause, activate and remove called with an id that *)
(* is empty, whitespace-only, contains a path-traversal sequence or is     *)
(* longer than 255 characters fail with Validation on field "id", call no  *)
(* collaborator and leave the stored document unchanged.                   *)

C9_InvalidIdRejected ==
    (/\ last.op \in Mutating \cup {"get"}
     /\ (EmptyOrBlank(last.id) \/ ContainsTraversal(last.id) \/ TooLong(last.id)))
    => /\ last.result.tag = "ValidationError"
       /\ last.result.field = "id"
       /\ last.calls = <<>>
       /\ stored = last.pre

\* an id one character over the limit was refused
C9_Witness ==
    /\ last.op \in Mutating \cup {"get"}
    /\ Len(last.id) = MaxIdLen + 1
    /\ ~EmptyOrBlank(last.id)
    /\ ~ContainsTraversal(last.id)
    /\ last.result.tag = "ValidationError"

(* C10: get, update, pause, activate and remove on a valid id that is      *)
(* absent from the tenant sub-map fail with NotFound carrying that id,     *)
(* issue no write and no restart, and leave the stored document unchanged. *)

C10_AbsentIdNotFound ==
    (/\ last.op \in {"get", "update", "pause", "activate", "remove"}
     /\ Validated[last.id].ok
     /\ Addressed \notin DOMAIN Before
     /\ ~Failed("read"))
    => /\ last.result.tag = "TenantNotFoundError"
       /\ last.result.tenantId = Addressed
       /\ ~Issued("write")
       /\ ~Issued("restart")
       /\ stored = last.pre

----------------------------------------------------------------------------
(* Reading records of every shape: the store starts with one record that   *)
(* keeps any subset of the seven core fields, and the caller lists and     *)
(* gets.                                                                   *)

Restrict(o, S) == [k \in S \cap DOMAIN o |-> o[k]]

\* a record holding the opposite of every default
OffRecord ==
    [name |-> Text("Dental Office"), systemPrompt |-> "", tools |-> [deny |-> <<"exec">>],
     users |-> <<>>, enabled |-> FALSE, paid |-> FALSE, groupPolicy |-> "open"]

ShapeRecords == {Restrict(r, S) : r \in {AcmeRecord, OffRecord}, S \in SUBSET RecordFields}

InitShapes ==
    /\ stored \in {[channels |-> [slack |-> [channels |-> IdA :> r]]] : r \in ShapeRecords}
    /\ last = NoOp
    /\ restarts = 0
    /\ okWrites = 0
    /\ nOps = 0
    /\ callers = EmptyObj

NextRead == List \/ Get

SpecShapes == InitShapes /\ [][NextRead]_vars

\* the value a read shows for field f of stored record r kept under key k
Shown(k, r, f) ==
    CASE f = "name"         -> IF "name" \in DOMAIN r THEN r["name"] ELSE k
      [] f = "systemPrompt" -> IF "systemPrompt" \in DOMAIN r THEN r["systemPrompt"] ELSE ""
      [] f = "tools"        -> IF "tools" \in DOMAIN r THEN r["tools"]
                               ELSE [deny |-> <<"exec", "write", "edit", "gateway",
                                                "cron", "message">>]
      [] f = "users"        -> IF "users" \in DOMAIN r THEN r["users"] ELSE <<>>
      [] f = "enabled"      -> IF "enabled" \in DOMAIN r THEN r["enabled"] ELSE TRUE
      [] f = "paid"         -> IF "paid" \in DOMAIN r THEN r["paid"] ELSE FALSE
      [] f = "groupPolicy"  -> IF "groupPolicy" \in DOMAIN r THEN r["groupPolicy"]
                               ELSE "allowlist"

(* C11: for every record stored in the tenant sub-map, whichever of the    *)
(* seven core fields it omits, get(id) succeeds and list() contains a      *)
(* record for it, and in both every core field is defined: the stored      *)
(* value where there is one, otherwise the id for name, "" for             *)
(* systemPrompt, the default deny set for tools, [] for users, true for    *)
(* enabled, false for paid and "allowlist" for groupPolicy.                *)
C11_CompleteShapeOnRead ==
    \A k \in DOMAIN After :
        LET g == GetNow(k)
        IN  /\ g.tag = "Success"
            /\ RecordFields \subseteq DOMAIN g.value
            /\ "deny" \in DOMAIN g.value.tools
            /\ \A f \in RecordFields : g.value[f] = Shown(k, After[k], f)
            /\ \E t \in ListNow :
                  /\ t.id = k
                  /\ RecordFields \subseteq DOMAIN t
                  /\ \A f \in RecordFields : t[f] = Shown(k, After[k], f)

\* a get has returned the record that omits every core field
C11_Witness ==
    /\ last.op = "get"
    /\ last.result.tag = "Success"
    /\ Addressed \in DOMAIN Before
    /\ (DOMAIN Before[Addressed]) \cap RecordFields = {}
    /\ last.result.value.paid = FALSE

----------------------------------------------------------------------------
(* C12: after a successful remove(id), list() returns no record with that  *)
(* id, get(id) fails with TenantNotFoundError, and add(id, data) succeeds  *)
(* for every data and stores under id exactly the record built from data   *)
(* and the defaults.                                                       *)
C12_RemoveLeavesNoTrace ==
    (last.op = "remove" /\ last.result.tag = "Success") =>
        /\ \A t \in ListNow : t.id # Addressed
        /\ GetNow(last.id).tag = "TenantNotFoundError"
        /\ \A data \in DataSet :
              LET a == addTenant(stored, last.id, data, "ok", "ok", "ok")
              IN  /\ a.result.tag = "Success"
                  /\ Addressed \in DOMAIN getSlackChannels(a.doc)
                  /\ getSlackChannels(a.doc)[Addressed] = tenantToChannel(data)

----------------------------------------------------------------------------
\* how the last operation's call to `method` ended ("ok" when it made none)
Returned(method) ==
    IF Issued(method)
    THEN (CHOOSE c \in Range(last.calls) : c.method = method).outcome
    ELSE "ok"

(* C13: pause(id) and activate(id) leave the stored document, the result   *)
(* (or failure) and the collaborator calls that update(id, {enabled:       *)
(* false}) respectively update(id, {enabled: true}) produces from the same *)
(* starting document under the same collaborator outcomes; and once their  *)
(* write has succeeded get(id).enabled is false respectively true.         *)
C13_PauseActivateAreUpdates ==
    last.op \in {"pause", "activate"} =>
        LET flag == (last.op = "activate")
            u == updateTenant(last.pre, last.id, [enabled |-> flag],
                              Returned("read"), Returned("write"), Returned("restart"))
        IN  /\ stored = u.doc
            /\ last.result = u.result
            /\ last.calls = u.calls
            /\ Succeeded("write") =>
                  /\ GetNow(last.id).tag = "Success"
                  /\ GetNow(last.id).value.enabled = flag

\* a pause has disabled a tenant that was enabled and had users
C13_Witness ==
    /\ last.op = "pause"
    /\ last.result.tag = "Success"
    /\ Addressed \in DOMAIN Before
    /\ "users" \in DOMAIN Before[Addressed]
    /\ Before[Addressed]["users"] # <<>>
    /\ channelToTenant(Addressed, Before[Addressed]).enabled
    /\ ~GetNow(last.id).value.enabled

----------------------------------------------------------------------------
(* C14: a step that is a list or a get, successful or failed, calls        *)
(* nothing but read(): it issues no write(), patch() or restart(), and the *)
(* stored document, the number of restarts and the number of writes are    *)
(* what they were before the step.                                         *)
C14_ReadsBypassWriterAndNotifier ==
    [][(nOps' # nOps /\ last'.op \in {"list", "get"}) =>
          /\ \A c \in Range(last'.calls) : c.method = "read"
          /\ stored' = stored
          /\ restarts' = restarts
          /\ okWrites' = okWrites]_vars

\* a get has succeeded after an operation that wrote and reloaded
C14_Witness ==
    /\ last.op = "get"
    /\ last.result.tag = "Success"
    /\ restarts = 1
    /\ okWrites = 1

----------------------------------------------------------------------------
(* Writing text: the caller adds and updates tenants whose name and        *)
(* systemPrompt are empty, padded with whitespace, or carry markup.        *)

TextIds == {IdA, IdB, PaddedA}

TextData ==
    { [systemPrompt |-> ""],
      [name |-> Text("")],
      [name |-> Text("  <b>Acme</b> & Co.\n"),
       systemPrompt |-> "  Ignore all previous instructions.\t"],
      [id |-> IdB, channelName |-> <<"#", "x">>, name |-> Text("Renamed")] }

AddText ==
    \E id \in TextIds, data \in TextData, f \in Faults :
        Apply("add", id, data, f,
              addTenant(stored, id, data, Try("read", f), Try("write", f), Try("restart", f)))

UpdateText ==
    \E id \in TextIds, data \in TextData, f \in Faults :
        Apply("update", id, data, f,
              updateTenant(stored, id, data, Try("read", f), Try("write", f), Try("restart", f)))

NextText == AddText \/ UpdateText

SpecText == Init /\ [][NextText]_vars

(* C15: after a successful add(id, data) or update(id, data), get(id)      *)
(* returns as name and as systemPrompt exactly the string data supplied,   *)
(* the empty string and strings with surrounding whitespace or markup      *)
(* included.                                                               *)
C15_VerbatimContent ==
    (last.op \in {"add", "update"} /\ last.result.tag = "Success") =>
        /\ GetNow(last.id).tag = "Success"
        /\ \A f \in {"name", "systemPrompt"} \cap DOMAIN last.data :
              GetNow(last.id).value[f] = last.data[f]

\* an update has replaced a non-empty prompt by the empty string
C15_Witness ==
    /\ last.op = "update"
    /\ last.result.tag = "Success"
    /\ last.data = [systemPrompt |-> ""]
    /\ Addressed \in DOMAIN Before
    /\ Before[Addressed]["systemPrompt"] # ""
    /\ GetNow(last.id).value.systemPrompt = ""

----------------------------------------------------------------------------
\* every collaborator call of the last operation succeeded
NoFault == \A c \in Range(last.calls) : c.outcome = "ok"

(* C16: an add(id, data) whose id passes validation and is not a key of    *)
(* the tenant sub-map, names of built-in object properties included,       *)
(* succeeds, stores the record under the id, writes and reloads (when no   *)
(* collaborator fails); and a get(id) of such an absent id fails with      *)
(* TenantNotFoundError.                                                    *)
C16_AddSucceedsWhenAbsent ==
    (/\ last.op \in {"add", "get"}
     /\ Validated[last.id].ok
     /\ Addressed \notin DOMAIN Before
     /\ NoFault) =>
        IF last.op = "add"
        THEN /\ last.result.tag = "Success"
             /\ Addressed \in DOMAIN After
             /\ Succeeded("write")
             /\ Succeeded("restart")
        ELSE last.result.tag = "TenantNotFoundError"

----------------------------------------------------------------------------
(* ConfigService.patch: the deep merge of a raw partial document *)

(* deepMerge tells objects, arrays, primitives and null apart, so below    *)
(* the top level a value carries its kind: t is what typeof /              *)
(* Array.isArray / truthiness report, the other field is the content.      *)
(* The documents merged (target, source, result) are functions from keys   *)
(* to such values.                                                         *)
JObj(o) == [t |-> "object", fields |-> o]
JArr(a) == [t |-> "array", items |-> a]

Reserved == {"__proto__", "constructor", "prototype"}

\* sv && typeof sv === "object" && !Array.isArray(sv)
IsPlainObject(o, key) == key \in DOMAIN o /\ o[key].t = "object"

RECURSIVE deepMerge(_, _)

\* deepMerge copying the source's keys over the target's without recursing
deepMergeShallow(target, source) ==
    [key \in (DOMAIN target) \cup ((DOMAIN source) \ Reserved) |->
        IF key \in (DOMAIN source) \ Reserved THEN source[key] ELSE target[key]]

\* deepMerge appending a patch array to the array the target holds
deepMergeAppending(target, source) ==
    [key \in (DOMAIN target) \cup ((DOMAIN source) \ Reserved) |->
        IF key \in (DOMAIN source) \ Reserved
        THEN IF key \in DOMAIN target /\ source[key].t = "array" /\ target[key].t = "array"
             THEN JArr(target[key].items \o source[key].items)
             ELSE source[key]
        ELSE target[key]]

deepMerge(target, source) ==
    [key \in (DOMAIN target) \cup ((DOMAIN source) \ Reserved) |->
        IF key \in (DOMAIN source) \ Reserved
        THEN IF IsPlainObject(source, key) /\ IsPlainObject(target, key)
             THEN JObj(deepMerge(target[key].fields, source[key].fields))
             ELSE source[key]
        ELSE target[key]]

MaxPatches == 1

Scalars == {JPrim("1"), JNull, JArr(<<JPrim("1")>>)}

FlatObjects ==
    {JObj(o) : o \in UNION {[S -> {JPrim("1"), JPrim("2")}] : S \in SUBSET {"k", "__proto__"}}}

NestedObjects ==
    {JObj([k |-> JObj(o)]) : o \in {[constructor |-> JPrim("2")], [k |-> JPrim("1")]}}

MergeValues == Scalars \cup FlatObjects \cup NestedObjects

\* the document held by the store: a subtree under a, a sibling b, and
\* possibly a key of its own that is spelled like a reserved name
MergeBases ==
    {Spread(a, Spread(b, c)) :
        a \in {EmptyObj} \cup {[a |-> x] : x \in MergeValues},
        b \in {EmptyObj, [b |-> JPrim("1")]},
        c \in {EmptyObj, [constructor |-> JObj([k |-> JPrim("1")])]}}

MergePatches ==
    {Spread(a, c) :
        a \in {EmptyObj} \cup {[a |-> x] : x \in MergeValues},
        c \in {EmptyObj, [constructor |-> JPrim("2")], [constructor |-> JObj([k |-> JPrim("2")])]}}

InitMerge ==
    /\ stored \in MergeBases
    /\ last = NoOp
    /\ restarts = 0
    /\ okWrites = 0
    /\ nOps = 0
    /\ callers = EmptyObj

\* patch(patchData): current = deepMerge(current, patchData)
Patch ==
    \E patchData \in MergePatches :
        /\ nOps < MaxPatches
        /\ stored' = deepMerge(stored, patchData)
        /\ last' = [op |-> "patch", id |-> EmptyId, data |-> patchData, pre |-> stored,
                    result |-> Success(Void), calls |-> <<>>]
        /\ nOps' = nOps + 1
        /\ UNCHANGED <<restarts, okWrites, callers>>

NextMerge == Patch

SpecMerge == InitMerge /\ [][NextMerge]_vars

----------------------------------------------------------------------------
\* base and patch both hold a non-array object at key k
BothObjects(base, patch, k) ==
    /\ k \in DOMAIN base /\ base[k].t = "object"
    /\ k \in DOMAIN patch /\ patch[k].t = "object"

RECURSIVE MergedAt(_, _, _, _, _)
RECURSIVE MergeOf(_, _, _, _)

\* at key k, result holds the merge of the two objects when base and patch
\* both hold one, and otherwise exactly the patch value
MergedAt(base, patch, result, k, skipped) ==
    /\ k \in DOMAIN result
    /\ IF BothObjects(base, patch, k)
       THEN /\ result[k].t = "object"
            /\ MergeOf(base[k].fields, patch[k].fields, result[k].fields, skipped)
       ELSE result[k] = patch[k]

\* result is base merged with patch, the keys in skipped being passed over
MergeOf(base, patch, result, skipped) ==
    /\ \A k \in (DOMAIN patch) \ skipped : MergedAt(base, patch, result, k, skipped)
    /\ \A k \in (DOMAIN base) \ ((DOMAIN patch) \ skipped) :
          k \in DOMAIN result /\ result[k] = base[k]

(* C17 as stated: after patch(p) on base document b, at every key of p     *)
(* the stored document holds the merge of the two values when both b and p *)
(* hold a non-array object there, and otherwise exactly p's value.         *)
C17_MergeAtEveryPatchKey ==
    last.op = "patch" =>
        \A k \in DOMAIN last.data : MergedAt(last.pre, last.data, stored, k, {})

(* C17: after patch(p) on base document b, at every key of p other than    *)
(* __proto__, constructor and prototype the stored document holds the      *)
(* merge of the two values (computed the same way) when both b and p hold  *)
(* a non-array object there, and otherwise exactly p's value: an array, a  *)
(* primitive or null of p replaces whatever b held, an object of p         *)
(* replaces an array, a primitive, null or nothing of b.                   *)
C17_MergeAtEveryOrdinaryPatchKey ==
    last.op = "patch" =>
        \A k \in (DOMAIN last.data) \ Reserved :
            MergedAt(last.pre, last.data, stored, k, Reserved)

\* a patch has merged an object into an object that kept a key of its own
C17_Witness ==
    /\ last.op = "patch"
    /\ BothObjects(last.pre, last.data, "a")
    /\ "k" \in DOMAIN last.pre["a"].fields
    /\ "k" \notin DOMAIN last.data["a"].fields
    /\ "k" \in DOMAIN stored["a"].fields

----------------------------------------------------------------------------
RECURSIVE NoNewReserved(_, _)

\* every reserved key of result, at whatever depth, is a key base held at
\* the same position
NoNewReserved(base, result) ==
    \A k \in DOMAIN result :
        /\ k \in Reserved => k \in DOMAIN base
        /\ result[k].t = "object" =>
              NoNewReserved(IF k \in DOMAIN base /\ base[k].t = "object"
                            THEN base[k].fields ELSE EmptyObj,
                            result[k].fields)

(* C18: after patch(p) on base document b, a key named __proto__,          *)
(* constructor or prototype appears in the stored document, at the top     *)
(* level or inside a nested object, only where b already held a key of     *)
(* that name at the same position.                                         *)
C18_ReservedNamesIgnored == last.op = "patch" => NoNewReserved(last.pre, stored)

----------------------------------------------------------------------------
(* Concurrent callers.  Each mutating operation is a generator that        *)
(* suspends at its collaborator calls: it validates and reads, computes    *)
(* the updated document from what it read, writes it, and reloads the      *)
(* gateway.  Several callers run one operation each against the same       *)
(* store, interleaved at those calls; the collaborators do not fail here.  *)

MaxCallers == 2

Callers == 1..MaxCallers

ConcIds == {IdA, IdB}

Requests ==
    {[op |-> "add", id |-> id, data |-> EmptyObj] : id \in ConcIds}
    \cup {[op |-> "update", id |-> id, data |-> [systemPrompt |-> "x"]] : id \in ConcIds}
    \cup {[op |-> "remove", id |-> id, data |-> EmptyObj] : id \in ConcIds}
    \cup {[op |-> "pause", id |-> id, data |-> [enabled |-> FALSE]] : id \in ConcIds}

ConcDocs == {emptyConfig, [channels |-> [slack |-> [channels |-> IdA :> AcmeRecord]]]}

\* the operation req run to its end on the document doc
Run(req, doc) ==
    CASE req.op = "add"    -> addTenant(doc, req.id, req.data, "ok", "ok", "ok")
      [] req.op = "update" -> updateTenant(doc, req.id, req.data, "ok", "ok", "ok")
      [] req.op = "remove" -> removeTenant(doc, req.id, "ok", "ok", "ok")
      [] req.op = "pause"  -> pauseTenant(doc, req.id, "ok", "ok", "ok")

Idle == [pc |-> "idle", req |-> [op |-> "none", id |-> EmptyId, data |-> EmptyObj],
         snapshot |-> emptyConfig, readAt |-> 0, wrote |-> 0, result |-> [tag |-> "None"]]

InitConc ==
    /\ stored \in ConcDocs
    /\ last = NoOp
    /\ restarts = 0
    /\ okWrites = 0
    /\ nOps = 0
    /\ callers = [c \in Callers |-> Idle]

\* how caller c's operation ends: computed from the document it read
Pending(c) == Run(callers[c].req, callers[c].snapshot)

\* the document caller c writes, were it computed from the store as it is
\* at the time of the write
UpdatedFromCurrent(c) == Run(callers[c].req, stored).doc

\* the document caller c writes: `updated`, computed from the document it read
Updated(c) == Pending(c).doc

\* validateTenantId and config.read(), then the existence check: the caller
\* either fails at once or holds the document it read, about to write
Begin(c) ==
    \E req \in Requests :
        /\ callers[c].pc = "idle"
        /\ LET o == Run(req, stored)
               writes == Count(o.calls, "write", FALSE) > 0
           IN  /\ callers' = [callers EXCEPT ![c] =
                                 [pc |-> IF writes THEN "read" ELSE "done",
                                  req |-> req, snapshot |-> stored, readAt |-> okWrites,
                                  wrote |-> 0,
                                  result |-> IF writes THEN [tag |-> "None"] ELSE o.result]]
               /\ nOps' = IF writes THEN nOps ELSE nOps + 1
        /\ UNCHANGED <<stored, last, restarts, okWrites>>

\* config.write(updated)
Write(c) ==
    /\ callers[c].pc = "read"
    /\ stored' = Updated(c)
    /\ okWrites' = okWrites + 1
    /\ callers' = [callers EXCEPT ![c].pc = "written", ![c].wrote = okWrites + 1]
    /\ UNCHANGED <<last, restarts, nOps>>

\* gateway.restart() and the return
Finish(c) ==
    /\ callers[c].pc = "written"
    /\ restarts' = restarts + 1
    /\ callers' = [callers EXCEPT ![c].pc = "done", ![c].result = Pending(c).result]
    /\ nOps' = nOps + 1
    /\ UNCHANGED <<stored, last, okWrites>>

NextConc == \E c \in Callers : Begin(c) \/ Write(c) \/ Finish(c)

SpecConc == InitConc /\ [][NextConc]_vars

----------------------------------------------------------------------------
\* caller c has returned success
ReturnedSuccess(c) == callers[c].pc = "done" /\ callers[c].result.tag = "Success"

\* the tenant sub-map of the document caller c read
Snapshot(c) == getSlackChannels(callers[c].snapshot)

(* C19: when two callers operating on different tenant ids have both       *)
(* returned success, and the one that wrote last had read the document     *)
(* before the other wrote, the stored document is the one the later writer *)
(* computed from what it read: at the earlier writer's id it holds what    *)
(* the later writer saw there, so the earlier writer's effect is lost.     *)
C19_LaterWriterOverwrites ==
    \A e \in Callers, l \in Callers :
        (/\ e # l
         /\ ReturnedSuccess(e) /\ ReturnedSuccess(l)
         /\ callers[e].wrote > 0
         /\ callers[e].wrote < callers[l].wrote
         /\ callers[l].wrote = okWrites
         /\ callers[l].readAt < callers[e].wrote
         /\ Trim(callers[e].req.id) # Trim(callers[l].req.id)) =>
            LET k == Trim(callers[e].req.id)
            IN  /\ stored = Run(callers[l].req, callers[l].snapshot).doc
                /\ k \in DOMAIN After <=> k \in DOMAIN Snapshot(l)
                /\ k \in DOMAIN After => After[k] = Snapshot(l)[k]

\* two adds of different ids have both returned success and only one of
\* the two ids is stored
C19_Witness ==
    \E e \in Callers, l \in Callers :
        /\ ReturnedSuccess(e) /\ ReturnedSuccess(l)
        /\ callers[e].req.op = "add" /\ callers[l].req.op = "add"
        /\ Trim(callers[e].req.id) # Trim(callers[l].req.id)
        /\ Trim(callers[e].req.id) \notin DOMAIN After
        /\ Trim(callers[l].req.id) \in DOMAIN After

(* C20: a step makes an absent id a key of the stored tenant sub-map only  *)
(* if it is the write of an add of that id: no write of an update, pause   *)
(* or remove, whenever it started, makes an absent id present.             *)
C20_CreatedOnlyByAdd ==
    [][\A k \in ConcIds :
          (k \notin DOMAIN getSlackChannels(stored) /\ k \in DOMAIN getSlackChannels(stored')) =>
              \E c \in Callers :
                  /\ callers[c].pc = "read" /\ callers'[c].pc = "written"
                  /\ callers[c].req.op = "add"
                  /\ Trim(callers[c].req.id) = k]_vars

----------------------------------------------------------------------------
(* The HTTP binding (server.mjs): an Express application that reads and    *)
(* writes the configuration file itself and restarts the gateway.  The     *)
(* file's content is `stored`; a channel name, like a tenant id, is a      *)
(* sequence of one-character strings.                                      *)

CHANNEL_TYPE == "slack"

\* a token is a sequence of pieces, so that a header can carry the marker
\* "Bearer " in front of, or in the middle of, a token
AUTH_TOKEN == <<"change", "me">>

WrongToken == <<"guess">>

BearerMarker == "Bearer "

RECURSIVE ReplaceFirst(_, _)

\* s.replace(piece, ''): the first occurrence of piece is dropped
ReplaceFirst(s, piece) ==
    IF s = <<>> THEN <<>>
    ELSE IF Head(s) = piece THEN Tail(s)
    ELSE <<Head(s)>> \o ReplaceFirst(Tail(s), piece)

\* req.headers.authorization?.replace('Bearer ', '') || req.query.token ;
\* undefined is the record without a token
PresentedToken(req) ==
    LET fromHeader == IF "authorization" \in DOMAIN req.headers
                      THEN ReplaceFirst(req.headers["authorization"], BearerMarker)
                      ELSE <<>>
    IN  IF fromHeader # <<>> THEN [token |-> fromHeader]
        ELSE IF "token" \in DOMAIN req.query THEN [token |-> req.query["token"]]
        ELSE EmptyObj

\* requireAuth letting a request through when either the header or the
\* query parameter carries the admin token
requireAuthEitherToken(req) ==
    \/ PresentedToken(req) = [token |-> AUTH_TOKEN]
    \/ ("token" \in DOMAIN req.query /\ req.query["token"] = AUTH_TOKEN)

\* requireAuth: TRUE when next() is called
requireAuth(req) == PresentedToken(req) = [token |-> AUTH_TOKEN]

Response(status, body) == [status |-> status, body |-> body]

Unauthorized == Response(401, [error |-> "Unauthorized"])

ServerError(msg) == Response(500, [error |-> msg])

\* restartGateway(): the failure of the command is caught and reported
RestartResult(rs) == IF rs = "ok" THEN [success |-> TRUE] ELSE [success |-> FALSE, error |-> rs]

(* Channel names *)

LowerCase == [c \in {"B", "N"} |-> IF c = "B" THEN "b" ELSE "n"]

UpperCase == [c \in {"b", "n"} |-> IF c = "b" THEN "B" ELSE "N"]

\* the characters of [a-z0-9-]
NameChars ==
    {"a", "b", "c", "d", "e", "f", "g", "h", "i", "j", "k", "l", "m", "n", "o", "p", "q",
     "r", "s", "t", "u", "v", "w", "x", "y", "z", "0", "1", "2", "3", "4", "5", "6", "7",
     "8", "9", "-"}

ClientPrefix == <<"c", "l", "i", "e", "n", "t", "-">>

StartsWith(s, prefix) == Len(s) >= Len(prefix) /\ SubSeq(s, 1, Len(prefix)) = prefix

\* s.replace(/^prefix/, '')
StripPrefix(s, prefix) ==
    IF StartsWith(s, prefix) THEN SubSeq(s, Len(prefix) + 1, Len(s)) ELSE s

\* channelName.trim().toLowerCase().replace(/[^a-z0-9-]/g, '-'), then
\* .replace(/^#/, '').replace(/^client-/, '')
CleanName(channelName) ==
    LET t == Trim(channelName)
        lowered == [i \in 1..Len(t) |-> IF t[i] \in DOMAIN LowerCase THEN LowerCase[t[i]] ELSE t[i]]
        dashed == [i \in 1..Len(t) |-> IF lowered[i] \in NameChars THEN lowered[i] ELSE "-"]
    IN  StripPrefix(StripPrefix(dashed, <<"#">>), ClientPrefix)

FullName(cleanName) == <<"#">> \o ClientPrefix \o cleanName

ConfigKey(cleanName) == ClientPrefix \o cleanName

\* config?.channels?.[CHANNEL_TYPE] || {}
ChannelTypeConfig(config) == Sub(Sub(config, "channels"), CHANNEL_TYPE)

\* config.channels?.[CHANNEL_TYPE]?.channels || {}
ChannelsObj(config) == Sub(ChannelTypeConfig(config), "channels")

\* cleanKey.replace('client-', '').replace(/-/g, ' '), first letter in
\* upper case
DisplayName(cleanKey) ==
    LET bare == StripPrefix(cleanKey, ClientPrefix)
        spaced == [i \in 1..Len(bare) |-> IF bare[i] = "-" THEN " " ELSE bare[i]]
    IN  [i \in 1..Len(spaced) |->
            IF i = 1 /\ spaced[i] \in DOMAIN UpperCase THEN UpperCase[spaced[i]] ELSE spaced[i]]

\* the customer extractCustomers pushes for one entry of the channels map
Customer(name, chConfig) ==
    [id           |-> StripPrefix(name, <<"#">>),
     channelName  |-> IF StartsWith(name, <<"#">>) THEN name ELSE <<"#">> \o name,
     displayName  |-> DisplayName(StripPrefix(name, <<"#">>)),
     enabled      |-> ~("enabled" \in DOMAIN chConfig /\ chConfig["enabled"] = FALSE),
     paid         |-> ~("paid" \in DOMAIN chConfig /\ chConfig["paid"] = FALSE),
     systemPrompt |-> IF "systemPrompt" \in DOMAIN chConfig /\ chConfig["systemPrompt"] # ""
                      THEN chConfig["systemPrompt"] ELSE "",
     toolsAllow   |-> IF "tools" \in DOMAIN chConfig /\ "allow" \in DOMAIN chConfig["tools"]
                      THEN chConfig["tools"]["allow"] ELSE <<>>,
     requireMention |-> OrElse(chConfig, "requireMention", FALSE),
     raw          |-> chConfig]

\* the customers of the entries named client-* or #client-*
extractCustomers(config) ==
    LET channels == ChannelsObj(config)
    IN  {Customer(name, channels[name]) :
            name \in {n \in DOMAIN channels : StartsWith(StripPrefix(n, <<"#">>), ClientPrefix)}}

(* Routes.  Each handler runs behind requireAuth; readConfig and           *)
(* writeConfig throw on failure, which the handler's catch answers with    *)
(* 500; rd, wr and rs are how the read, the write and the restart end.     *)

\* config.channels[CHANNEL_TYPE].channels = channels, the path being created
\* where it is missing and everything else on it kept
WithChannels(config, channels) ==
    Spread(config,
           Single("channels",
                  Spread(Sub(config, "channels"),
                         Single(CHANNEL_TYPE,
                                Spread(ChannelTypeConfig(config),
                                       Single("channels", channels))))))

\* config.channels[CHANNEL_TYPE].groupPolicy = 'allowlist'
WithAllowlist(config) ==
    Spread(config,
           Single("channels",
                  Spread(Sub(config, "channels"),
                         Single(CHANNEL_TYPE,
                                Spread(ChannelTypeConfig(config),
                                       Single("groupPolicy", "allowlist"))))))

\* Saved answering 500 when the restart fails, after the write
SavedRestartOrFail(current, updated, body, wr, rs) ==
    IF wr # "ok"
    THEN Outcome(ServerError(wr), <<Call("read", "ok"), Call("write", wr)>>, current)
    ELSE IF rs # "ok"
    THEN Outcome(ServerError(rs),
                 <<Call("read", "ok"), Call("write", "ok"), Call("restart", rs)>>, updated)
    ELSE Outcome(Response(200, Spread(body, [gatewayRestart |-> RestartResult(rs)])),
                 <<Call("read", "ok"), Call("write", "ok"), Call("restart", rs)>>, updated)

\* writeConfig(config); restartGateway(); res.json({ success: true, ... })
Saved(current, updated, body, wr, rs) ==
    IF wr # "ok"
    THEN Outcome(ServerError(wr), <<Call("read", "ok"), Call("write", wr)>>, current)
    ELSE Outcome(Response(200, Spread(body, [gatewayRestart |-> RestartResult(rs)])),
                 <<Call("read", "ok"), Call("write", "ok"), Call("restart", rs)>>, updated)

\* the key under which customer id is stored (#id before id), if any
ChannelKey(channelsObj, id) ==
    IF Lookup(channelsObj, <<"#">> \o id).truthy THEN [key |-> <<"#">> \o id]
    ELSE IF Lookup(channelsObj, id).truthy THEN [key |-> id]
    ELSE EmptyObj

NotFound == Response(404, [error |-> "Customer not found"])

\* GET /api/customers
listCustomers(current, req, rd) ==
    IF ~requireAuth(req) THEN Outcome(Unauthorized, <<>>, current)
    ELSE IF rd # "ok" THEN Outcome(ServerError(rd), <<Call("read", rd)>>, current)
    ELSE Outcome(Response(200, [customers |-> extractCustomers(current)]),
                 <<Call("read", "ok")>>, current)

\* GET /api/customers/:id
getCustomer(current, req, rd) ==
    IF ~requireAuth(req) THEN Outcome(Unauthorized, <<>>, current)
    ELSE IF rd # "ok" THEN Outcome(ServerError(rd), <<Call("read", rd)>>, current)
    ELSE LET found == {c \in extractCustomers(current) : c.id = req.params.id}
         IN  IF found = {}
             THEN Outcome(NotFound, <<Call("read", "ok")>>, current)
             ELSE Outcome(Response(200, [customer |-> CHOOSE c \in found : TRUE]),
                          <<Call("read", "ok")>>, current)

\* the channel entry POST /api/customers builds from the request body
NewChannelConfig(body) ==
    Spread([allow |-> TRUE, enabled |-> TRUE,
            paid |-> ~("paid" \in DOMAIN body /\ body["paid"] = FALSE),
            requireMention |-> OrElse(body, "requireMention", FALSE)],
           Spread(IF "systemPrompt" \in DOMAIN body /\ body["systemPrompt"] # ""
                  THEN [systemPrompt |-> body["systemPrompt"]] ELSE EmptyObj,
                  IF "toolsAllow" \in DOMAIN body /\ body["toolsAllow"] # <<>>
                  THEN [tools |-> [allow |-> body["toolsAllow"]]] ELSE EmptyObj))

\* POST /api/customers
addCustomer(current, req, rd, wr, rs) ==
    IF ~requireAuth(req) THEN Outcome(Unauthorized, <<>>, current)
    ELSE IF "channelName" \notin DOMAIN req.body \/ Trim(req.body["channelName"]) = <<>>
    THEN Outcome(Response(400, [error |-> "Channel name is required"]), <<>>, current)
    ELSE IF rd # "ok" THEN Outcome(ServerError(rd), <<Call("read", rd)>>, current)
    ELSE LET cleanName == CleanName(req.body["channelName"])
             fullName == FullName(cleanName)
             channels == ChannelsObj(current)
             channelConfig == NewChannelConfig(req.body)
         IN  IF Lookup(channels, fullName).truthy \/ Lookup(channels, ConfigKey(cleanName)).truthy
             THEN Outcome(Response(409, [error |-> "Channel already exists"]),
                          <<Call("read", "ok")>>, current)
             ELSE Saved(current,
                        WithAllowlist(WithChannels(current,
                                                   Spread(channels, Single(fullName, channelConfig)))),
                        [success |-> TRUE,
                         customer |-> Spread([id |-> ConfigKey(cleanName), channelName |-> fullName],
                                             channelConfig)],
                        wr, rs)

\* the `updates` PATCH /api/customers/:id collects from the request body
Updates(body) ==
    Spread([k \in (DOMAIN body) \cap {"systemPrompt", "enabled", "paid", "requireMention"} |->
               body[k]],
           IF "toolsAllow" \in DOMAIN body THEN [tools |-> [allow |-> body["toolsAllow"]]]
           ELSE EmptyObj)

\* the common shape of the routes that change one stored entry: 404 when
\* the customer has no entry, otherwise the entry is replaced by
\* { ...entry, ...changes } and the config saved
ChangeEntry(current, req, changes, body, rd, wr, rs) ==
    IF ~requireAuth(req) THEN Outcome(Unauthorized, <<>>, current)
    ELSE IF rd # "ok" THEN Outcome(ServerError(rd), <<Call("read", rd)>>, current)
    ELSE LET channels == ChannelsObj(current)
             found == ChannelKey(channels, req.params.id)
         IN  IF found = EmptyObj
             THEN Outcome(NotFound, <<Call("read", "ok")>>, current)
             ELSE Saved(current,
                        WithChannels(current,
                                     Spread(channels,
                                            Single(found.key,
                                                   Spread(Lookup(channels, found.key).own,
                                                          changes)))),
                        body, wr, rs)

\* PATCH /api/customers/:id
editCustomer(current, req, rd, wr, rs) ==
    ChangeEntry(current, req, Updates(req.body),
                [success |-> TRUE, updated |-> Updates(req.body)], rd, wr, rs)

\* POST /api/customers/:id/pause
pauseCustomer(current, req, rd, wr, rs) ==
    ChangeEntry(current, req, [enabled |-> FALSE],
                [success |-> TRUE, status |-> "paused"], rd, wr, rs)

\* POST /api/customers/:id/activate
activateCustomer(current, req, rd, wr, rs) ==
    ChangeEntry(current, req, [enabled |-> TRUE],
                [success |-> TRUE, status |-> "active"], rd, wr, rs)

\* DELETE /api/customers/:id : with hard=true the entry is deleted,
\* otherwise it is kept with enabled: false and deleted: true
removeCustomer(current, req, rd, wr, rs) ==
    IF ~requireAuth(req) THEN Outcome(Unauthorized, <<>>, current)
    ELSE IF rd # "ok" THEN Outcome(ServerError(rd), <<Call("read", rd)>>, current)
    ELSE LET channels == ChannelsObj(current)
             found == ChannelKey(channels, req.params.id)
             hardDelete == "hard" \in DOMAIN req.query /\ req.query["hard"] = "true"
         IN  IF found = EmptyObj
             THEN Outcome(NotFound, <<Call("read", "ok")>>, current)
             ELSE Saved(current,
                        IF hardDelete
                        THEN WithChannels(current, Without(channels, found.key))
                        ELSE WithChannels(current,
                                          Spread(channels,
                                                 Single(found.key,
                                                        Spread(channels[found.key],
                                                               [enabled |-> FALSE,
                                                                deleted |-> TRUE])))),
                        [success |-> TRUE, status |-> "removed", hardDelete |-> hardDelete],
                        wr, rs)

\* GET /api/config
getConfig(current, req, rd) ==
    IF ~requireAuth(req) THEN Outcome(Unauthorized, <<>>, current)
    ELSE IF rd # "ok" THEN Outcome(ServerError(rd), <<Call("read", rd)>>, current)
    ELSE Outcome(Response(200, [channelType |-> CHANNEL_TYPE,
                                channelConfig |-> ChannelTypeConfig(current)]),
                 <<Call("read", "ok")>>, current)

(* Requests and the configuration files the binding starts from *)

MaxRequests == 1

\* what a request carries as credentials: an Authorization header, a token
\* query parameter, both or neither
HttpCredentials ==
    { [headers |-> [authorization |-> <<BearerMarker>> \o AUTH_TOKEN], query |-> EmptyObj],
      [headers |-> EmptyObj, query |-> [token |-> AUTH_TOKEN]],
      [headers |-> [authorization |-> AUTH_TOKEN], query |-> EmptyObj],
      [headers |-> [authorization |-> <<BearerMarker>>], query |-> [token |-> AUTH_TOKEN]],
      [headers |-> [authorization |-> <<"change", BearerMarker, "me">>], query |-> EmptyObj],
      [headers |-> EmptyObj, query |-> EmptyObj],
      [headers |-> [authorization |-> <<BearerMarker>> \o WrongToken], query |-> EmptyObj],
      [headers |-> [authorization |-> <<BearerMarker>> \o WrongToken],
       query |-> [token |-> AUTH_TOKEN]],
      [headers |-> EmptyObj, query |-> [token |-> WrongToken]],
      [headers |-> [authorization |-> <<BearerMarker, BearerMarker>> \o AUTH_TOKEN],
       query |-> EmptyObj] }

Bob == <<"b", "o", "b">>

ClientBob == ClientPrefix \o Bob

ClientMike == ClientPrefix \o <<"m", "i", "k", "e">>

ClientZed == ClientPrefix \o <<"z", "e", "d">>

HttpIds == {ClientBob, ClientMike, ClientZed}

\* channel names as an owner types them
ChannelNames ==
    { <<>>, <<" ", " ">>, Bob, ClientBob, <<"#">> \o ClientBob, <<" ", "B", "o", "b", " ">>,
      <<"n", "e", "w">>, <<"#">> \o ClientPrefix \o <<"n", "e", "w">> }

AddBodies ==
    {EmptyObj}
    \cup {[channelName |-> n] : n \in ChannelNames}
    \cup {[channelName |-> <<"n", "e", "w">>, paid |-> FALSE],
          [channelName |-> <<"n", "e", "w">>, paid |-> TRUE,
           systemPrompt |-> "You are Acme Corp's blog assistant",
           toolsAllow |-> <<"read">>, requireMention |-> TRUE]}

EditBodies ==
    {EmptyObj, [systemPrompt |-> "Blog and social media assistant"],
     [enabled |-> FALSE, paid |-> FALSE, toolsAllow |-> <<>>]}

\* an entry written by hand: no paid, enabled or tools field
BobEntry == [allow |-> TRUE, systemPrompt |-> "Blog assistant"]

MikeEntry == [allow |-> TRUE, enabled |-> FALSE, paid |-> TRUE]

HttpDocs ==
    { EmptyObj,
      [gateway |-> [port |-> 18789],
       channels |-> [discord |-> [enabled |-> FALSE],
                     slack |-> [groupPolicy |-> "allowlist", dm |-> [enabled |-> TRUE],
                                channels |-> (<<"#">> \o ClientBob) :> BobEntry
                                             @@ <<"g", "e", "n">> :> [allow |-> TRUE]]]],
      [gateway |-> [port |-> 18789],
       channels |-> [slack |-> [groupPolicy |-> "open", dm |-> [enabled |-> TRUE],
                                channels |-> (<<"#">> \o ClientBob) :> BobEntry
                                             @@ ClientMike :> MikeEntry]]] }

InitHttp ==
    /\ stored \in HttpDocs
    /\ last = NoOp
    /\ restarts = 0
    /\ okWrites = 0
    /\ nOps = 0
    /\ callers = EmptyObj

HttpRequest(cred, params, query, body) ==
    [headers |-> cred.headers, query |-> Spread(cred.query, query), params |-> params,
     body |-> body]

\* The file holds o.doc afterwards; restartGateway ran once for every
\* restart call issued.
Serve(route, req, fault, outcome) ==
    /\ nOps < MaxRequests
    /\ LET o == outcome
       IN  /\ Manifest(fault, o.calls)
           /\ stored' = o.doc
           /\ last' = [op |-> route, id |-> EmptyId, data |-> req, pre |-> stored,
                       result |-> o.result, calls |-> o.calls]
           /\ restarts' = restarts + Count(o.calls, "restart", FALSE)
           /\ okWrites' = okWrites + Count(o.calls, "write", TRUE)
           /\ nOps' = nOps + 1
           /\ UNCHANGED callers

ListCustomers ==
    \E cred \in HttpCredentials, f \in Faults :
        LET req == HttpRequest(cred, EmptyObj, EmptyObj, EmptyObj)
        IN  Serve("GET /api/customers", req, f, listCustomers(stored, req, Try("read", f)))

GetCustomer ==
    \E cred \in HttpCredentials, id \in HttpIds, f \in Faults :
        LET req == HttpRequest(cred, [id |-> id], EmptyObj, EmptyObj)
        IN  Serve("GET /api/customers/:id", req, f, getCustomer(stored, req, Try("read", f)))

AddCustomer ==
    \E cred \in HttpCredentials, body \in AddBodies, f \in Faults :
        LET req == HttpRequest(cred, EmptyObj, EmptyObj, body)
        IN  Serve("POST /api/customers", req, f,
                  addCustomer(stored, req, Try("read", f), Try("write", f), Try("restart", f)))

EditCustomer ==
    \E cred \in HttpCredentials, id \in HttpIds, body \in EditBodies, f \in Faults :
        LET req == HttpRequest(cred, [id |-> id], EmptyObj, body)
        IN  Serve("PATCH /api/customers/:id", req, f,
                  editCustomer(stored, req, Try("read", f), Try("write", f), Try("restart", f)))

PauseCustomer ==
    \E cred \in HttpCredentials, id \in HttpIds, f \in Faults :
        LET req == HttpRequest(cred, [id |-> id], EmptyObj, EmptyObj)
        IN  Serve("POST /api/customers/:id/pause", req, f,
                  pauseCustomer(stored, req, Try("read", f), Try("write", f), Try("restart", f)))

ActivateCustomer ==
    \E cred \in HttpCredentials, id \in HttpIds, f \in Faults :
        LET req == HttpRequest(cred, [id |-> id], EmptyObj, EmptyObj)
        IN  Serve("POST /api/customers/:id/activate", req, f,
                  activateCustomer(stored, req, Try("read", f), Try("write", f),
                                   Try("restart", f)))

RemoveCustomer ==
    \E cred \in HttpCredentials, id \in HttpIds, hard \in {EmptyObj, [hard |-> "true"]},
       f \in Faults :
        LET req == HttpRequest(cred, [id |-> id], hard, EmptyObj)
        IN  Serve("DELETE /api/customers/:id", req, f,
                  removeCustomer(stored, req, Try("read", f), Try("write", f), Try("restart", f)))

GetConfig ==
    \E cred \in HttpCredentials, f \in Faults :
        LET req == HttpRequest(cred, EmptyObj, EmptyObj, EmptyObj)
        IN  Serve("GET /api/config", req, f, getConfig(stored, req, Try("read", f)))

NextHttp ==
    \/ ListCustomers \/ GetCustomer \/ AddCustomer \/ EditCustomer
    \/ PauseCustomer \/ ActivateCustomer \/ RemoveCustomer \/ GetConfig

SpecHttp == InitHttp /\ [][NextHttp]_vars

----------------------------------------------------------------------------
(* Properties of the HTTP binding *)

MutatingRoutes ==
    {"POST /api/customers", "PATCH /api/customers/:id", "POST /api/customers/:id/pause",
     "POST /api/customers/:id/activate", "DELETE /api/customers/:id"}

\* the last request was answered with this status
Answered(status) == last.op # "none" /\ last.result.status = status

\* the request as the route `route` handles it on document doc
Handle(route, doc, req, rd, wr, rs) ==
    CASE route = "GET /api/customers"               -> listCustomers(doc, req, rd)
      [] route = "GET /api/customers/:id"           -> getCustomer(doc, req, rd)
      [] route = "POST /api/customers"              -> addCustomer(doc, req, rd, wr, rs)
      [] route = "PATCH /api/customers/:id"         -> editCustomer(doc, req, rd, wr, rs)
      [] route = "POST /api/customers/:id/pause"    -> pauseCustomer(doc, req, rd, wr, rs)
      [] route = "POST /api/customers/:id/activate" -> activateCustomer(doc, req, rd, wr, rs)
      [] route = "DELETE /api/customers/:id"        -> removeCustomer(doc, req, rd, wr, rs)
      [] route = "GET /api/config"                  -> getConfig(doc, req, rd)

(* C21: for every stored channel record without a paid field, the service *)
(* view (list) and the binding's customer view (extractCustomers) report   *)
(* paid = false; and after a successful POST /api/customers whose body has *)
(* no paid field the stored entry has paid = false.                        *)
C21_PaidFalseUnlessSetTrue ==
    /\ \A t \in ListNow : "paid" \notin DOMAIN After[t.id] => t.paid = FALSE
    /\ \A c \in extractCustomers(stored) : "paid" \notin DOMAIN c.raw => c.paid = FALSE
    /\ (/\ last.op = "POST /api/customers"
        /\ Answered(200)
        /\ "paid" \notin DOMAIN last.data.body) =>
           LET fullName == last.result.body.customer.channelName
           IN  ChannelsObj(stored)[fullName]["paid"] = FALSE

----------------------------------------------------------------------------
\* The bearer token of a request is what its Authorization header holds
\* once one "Bearer " marker is taken out of it (a second marker stays part
\* of the token); a request without a header, or with an empty bearer
\* token, presents its token query parameter instead.  TokenDiffers: the
\* request presents a token that differs from the admin token, or none.
TokenDiffers(req) ==
    LET bearer == IF "authorization" \in DOMAIN req.headers
                  THEN SelectSeq(req.headers["authorization"],
                                 LAMBDA piece : piece # BearerMarker)
                       \o (IF Len(SelectSeq(req.headers["authorization"],
                                            LAMBDA piece : piece = BearerMarker)) > 1
                           THEN <<BearerMarker>> ELSE <<>>)
                  ELSE <<>>
    IN  IF bearer # <<>> THEN bearer # AUTH_TOKEN
        ELSE "token" \notin DOMAIN req.query \/ req.query["token"] # AUTH_TOKEN

(* C22: every request to a /api/customers route or to /api/config whose    *)
(* bearer token (or, without one, whose token query parameter) differs     *)
(* from the admin token is answered 401 and calls neither readConfig nor   *)
(* writeConfig nor restartGateway; the file is as it was.                  *)
C22_UnauthenticatedBlocked ==
    (last.op # "none" /\ TokenDiffers(last.data)) =>
        /\ last.result = [status |-> 401, body |-> [error |-> "Unauthorized"]]
        /\ last.calls = <<>>
        /\ stored = last.pre

\* a DELETE of a stored customer carrying a wrong bearer token and the
\* admin token as query parameter has been refused
C22_Witness ==
    /\ last.op = "DELETE /api/customers/:id"
    /\ Answered(401)
    /\ "authorization" \in DOMAIN last.data.headers
    /\ "token" \in DOMAIN last.data.query
    /\ last.data.query["token"] = AUTH_TOKEN
    /\ (<<"#">> \o last.data.params.id) \in DOMAIN ChannelsObj(stored)

----------------------------------------------------------------------------
\* the customer a typed channel name designates: bob for "bob",
\* "client-bob" and "#client-bob"
Designated(channelName) ==
    StripPrefix(StripPrefix(Trim(channelName), <<"#">>), ClientPrefix)

\* the last request passed requireAuth
Authorized == ~TokenDiffers(last.data)

(* C23: a POST /api/customers whose channel name, typed as "bob",          *)
(* "client-bob" or "#client-bob", designates a customer channel that is in *)
(* the config (as "#client-bob" or as "client-bob") is answered 409        *)
(* "Channel already exists", writes nothing and restarts nothing.          *)
C23_DuplicateChannelRejected ==
    (/\ last.op = "POST /api/customers"
     /\ Authorized
     /\ ~Failed("read")
     /\ "channelName" \in DOMAIN last.data.body
     /\ Designated(last.data.body["channelName"]) # <<>>
     /\ \/ FullName(Designated(last.data.body["channelName"])) \in DOMAIN ChannelsObj(last.pre)
        \/ ConfigKey(Designated(last.data.body["channelName"])) \in DOMAIN ChannelsObj(last.pre)) =>
        /\ last.result = [status |-> 409, body |-> [error |-> "Channel already exists"]]
        /\ ~Issued("write")
        /\ ~Issued("restart")
        /\ stored = last.pre

----------------------------------------------------------------------------
(* C24: a successful POST /api/customers changes only the channels map of  *)
(* the configured channel type, by adding one entry: every other key of    *)
(* the config, every other channel type, the channel type's groupPolicy,   *)
(* its dm settings and its other keys, and every existing channel entry    *)
(* are after the write what they were before.                              *)
C24_AddPreservesConfig ==
    (last.op = "POST /api/customers" /\ Answered(200)) =>
        LET added == last.result.body.customer.channelName
        IN  /\ SameExcept(stored, last.pre, "channels")
            /\ SameExcept(Sub(stored, "channels"), Sub(last.pre, "channels"), CHANNEL_TYPE)
            /\ SameExcept(ChannelTypeConfig(stored), ChannelTypeConfig(last.pre), "channels")
            /\ added \notin DOMAIN ChannelsObj(last.pre)
            /\ DOMAIN ChannelsObj(stored) = (DOMAIN ChannelsObj(last.pre)) \cup {added}
            /\ \A k \in DOMAIN ChannelsObj(last.pre) :
                  ChannelsObj(stored)[k] = ChannelsObj(last.pre)[k]

----------------------------------------------------------------------------
(* C25: after a successful DELETE /api/customers/:id, with or without      *)
(* hard=true, the customer's channel entry is no longer in the config and  *)
(* GET /api/customers no longer lists a customer with that id.             *)
C25_RemovedCustomerIsGone ==
    (last.op = "DELETE /api/customers/:id" /\ Answered(200)) =>
        LET id == last.data.params.id
        IN  /\ ChannelKey(ChannelsObj(last.pre), id).key \notin DOMAIN ChannelsObj(stored)
            /\ \A c \in listCustomers(stored, last.data, "ok").result.body.customers : c.id # id

----------------------------------------------------------------------------
(* C26: a mutating route (add, edit, pause, activate, remove) that answers *)
(* 200 has written the config exactly once and then attempted exactly one  *)
(* gateway restart; when that restart failed, the file holds the config    *)
(* the request writes when the restart succeeds, and the response reports  *)
(* success together with gatewayRestart.success = false and the error; a   *)
(* request answered 400, 404 or 409 has written nothing and restarted      *)
(* nothing.                                                                *)
C26_OneWriteThenOneRestart ==
    last.op \in MutatingRoutes =>
        /\ Answered(200) =>
              /\ Len(last.calls) = 3
              /\ last.calls[1] = [method |-> "read", outcome |-> "ok"]
              /\ last.calls[2] = [method |-> "write", outcome |-> "ok"]
              /\ last.calls[3].method = "restart"
              /\ last.result.body.success = TRUE
              /\ last.result.body.gatewayRestart.success = (last.calls[3].outcome = "ok")
        /\ Failed("restart") =>
              /\ Answered(200)
              /\ stored = Handle(last.op, last.pre, last.data, "ok", "ok", "ok").doc
              /\ last.result.body.gatewayRestart =
                    [success |-> FALSE, error |-> last.calls[3].outcome]
        /\ last.result.status \in {400, 404, 409} =>
              /\ ~Issued("write")
              /\ ~Issued("restart")
              /\ stored = last.pre

\* an edit has been saved although the gateway could not be restarted
C26_Witness ==
    /\ last.op = "PATCH /api/customers/:id"
    /\ Failed("restart")
    /\ Answered(200)
    /\ stored # last.pre
    /\ restarts = 1

----------------------------------------------------------------------------
(* Id validation over typed ids: the id is drawn at the start, then        *)
(* validated on its own, or given to add and afterwards to get             *)

InitIds ==
    /\ stored = emptyConfig
    /\ \E id \in TypedIds : last = [NoOp EXCEPT !.id = id]
    /\ restarts = 0
    /\ okWrites = 0
    /\ nOps = 0
    /\ callers = EmptyObj

ValidateId ==
    /\ last.op = "none"
    /\ LET v == validateTenantId(last.id)
       IN  last' = [last EXCEPT !.op = "validate",
                                !.result = IF v.ok THEN Success(v.id) ELSE v.error]
    /\ UNCHANGED <<stored, restarts, okWrites, nOps, callers>>

AddTyped ==
    /\ last.op = "none"
    /\ Apply("add", last.id, EmptyObj, "none",
             addTenant(stored, last.id, EmptyObj, "ok", "ok", "ok"))

GetTyped ==
    /\ last.op = "add"
    /\ Apply("get", last.id, EmptyObj, "none", getTenant(stored, last.id, "ok"))

NextIds == ValidateId \/ AddTyped \/ GetTyped

SpecIds == InitIds /\ [][NextIds]_vars

\* id between its first and its last character that is not whitespace
Inner(id) ==
    LET solid == {i \in 1..Len(id) : id[i] \notin WhiteSpace}
        lo == CHOOSE i \in solid : \A j \in solid : i <= j
        hi == CHOOSE i \in solid : \A j \in solid : j <= i
    IN  IF solid = {} THEN <<>> ELSE SubSeq(id, lo, hi)

\* the decision on an id: the failure's message, or "accept"
Decision(id) ==
    IF EmptyOrBlank(id) THEN "Tenant ID cannot be empty"
    ELSE IF ContainsTraversal(id) THEN "Tenant ID contains path traversal characters"
    ELSE IF TooLong(id) THEN "Tenant ID too long (max 255)"
    ELSE "accept"

(* C27: validateId fails when the id is empty or whitespace-only, else     *)
(* when it contains two or more consecutive characters among '.', '/' and  *)
(* '\', else when the untrimmed id has more than 255 characters; every     *)
(* other id, one with single non-adjacent '/' or '\' included, succeeds    *)
(* with the trimmed id, and that trimmed id is the key add stores the      *)
(* record under and get finds it under.                                    *)
C27_ValidateIdDecision ==
    /\ last.op = "validate" =>
           IF Decision(last.id) = "accept"
           THEN last.result = Success(Inner(last.id))
           ELSE /\ last.result.tag = "ValidationError"
                /\ last.result.field = "id"
                /\ last.result.message = Decision(last.id)
    /\ last.op = "add" =>
           IF Decision(last.id) = "accept"
           THEN /\ last.result.tag = "Success"
                /\ DOMAIN After = {Inner(last.id)}
           ELSE /\ last.result.tag = "ValidationError"
                /\ After = EmptyObj
    /\ (last.op = "get" /\ Decision(last.id) = "accept") =>
           /\ last.result.tag = "Success"
           /\ last.result.value.id = Inner(last.id)

C27_Witness ==
    /\ last.op = "get"
    /\ last.id = <<" ", "/", "a">>
    /\ last.result.tag = "Success"
    /\ last.result.value.id = <<"/", "a">>
    /\ DOMAIN After = {<<"/", "a">>}

----------------------------------------------------------------------------
(* Deep merge over object references.  A JavaScript object is a cell of    *)
(* the heap, named by its address; a property holds a primitive, null, an  *)
(* array (never written to by the merge, kept as a value) or a reference   *)
(* to another object.  The store's `current` and the caller's patch are    *)
(* addresses, so that writing into an object is told apart from building  *)
(* a new one.                                                              *)

Ref(addr) == [t |-> "ref", addr |-> addr]

\* obj[key] = cell
Put(heap, addr, key, cell) == [heap EXCEPT ![addr] = Spread(@, Single(key, cell))]

RECURSIVE Alloc(_, _)
RECURSIVE AllocFields(_, _, _, _)

\* the object literal with the given fields, built bottom-up on the heap
Alloc(heap, fields) ==
    LET r == AllocFields(heap, fields, DOMAIN fields, EmptyObj)
    IN  [heap |-> Append(r.heap, r.cells), addr |-> Len(r.heap) + 1]

AllocFields(heap, fields, keys, cells) ==
    IF keys = {} THEN [heap |-> heap, cells |-> cells]
    ELSE LET key == CHOOSE k \in keys : TRUE
             v == fields[key]
         IN  IF v.t = "object"
             THEN LET a == Alloc(heap, v.fields)
                  IN  AllocFields(a.heap, fields, keys \ {key},
                                  Spread(cells, Single(key, Ref(a.addr))))
             ELSE AllocFields(heap, fields, keys \ {key}, Spread(cells, Single(key, v)))

RECURSIVE Deref(_, _)

\* the JSON value of the object at addr
Deref(heap, addr) ==
    JObj([key \in DOMAIN heap[addr] |->
            IF heap[addr][key].t = "ref"
            THEN Deref(heap, heap[addr][key].addr)
            ELSE heap[addr][key]])

RECURSIVE deepMergeHeap(_, _, _)
RECURSIVE MergeKeys(_, _, _, _, _)

\* for (const key of Object.keys(source)) { ... } writing into result
MergeKeys(heap, result, target, source, keys) ==
    IF keys = {} THEN heap
    ELSE LET key == CHOOSE k \in keys : TRUE
             sv == heap[source][key]
             bothObjects ==
                 /\ sv.t = "ref"
                 /\ key \in DOMAIN heap[target]
                 /\ heap[target][key].t = "ref"
         IN  IF bothObjects
             THEN LET m == deepMergeHeap(heap, heap[target][key].addr, sv.addr)
                  IN  MergeKeys(Put(m.heap, result, key, Ref(m.addr)),
                                result, target, source, keys \ {key})
             ELSE MergeKeys(Put(heap, result, key, sv), result, target, source, keys \ {key})

\* deepMerge with `const result = target`: the merge written into the target
deepMergeInPlace(heap, target, source) ==
    [heap |-> MergeKeys(heap, target, target, source, (DOMAIN heap[source]) \ Reserved),
     addr |-> target]

\* const result = { ...target }; the loop; return result
deepMergeHeap(heap, target, source) ==
    LET result == Len(heap) + 1
    IN  [heap |-> MergeKeys(Append(heap, heap[target]), result, target, source,
                            (DOMAIN heap[source]) \ Reserved),
         addr |-> result]

\* documents and patches with ordinary neighbours at two nested levels
HeapBases ==
    MergeBases \cup
    {[a |-> JObj([k |-> JObj([k |-> JPrim("1"), j |-> JPrim("1")]), j |-> JPrim("1")]),
      b |-> JPrim("1")]}

HeapPatches ==
    MergePatches \cup
    {[a |-> JObj([k |-> JObj([k |-> JPrim("2")])])],
     [a |-> JObj([k |-> JObj([i |-> JObj(EmptyObj)])]), c |-> JObj([k |-> JPrim("2")])]}

\* let current = structuredClone(initial)
InitHeap ==
    /\ \E initial \in HeapBases :
          LET a == Alloc(<<>>, initial)
          IN  stored = [heap |-> a.heap, current |-> a.addr]
    /\ last = NoOp
    /\ restarts = 0
    /\ okWrites = 0
    /\ nOps = 0
    /\ callers = EmptyObj

\* the caller builds patchData, then patch(patchData):
\* current = deepMerge(current, patchData)
PatchHeap ==
    \E patchData \in HeapPatches :
        /\ nOps < MaxPatches
        /\ LET p == Alloc(stored.heap, patchData)
               m == deepMergeHeap(p.heap, stored.current, p.addr)
           IN  /\ stored' = [heap |-> m.heap, current |-> m.addr]
               /\ last' = [op |-> "patch", id |-> EmptyId,
                           data |-> [value |-> patchData, addr |-> p.addr],
                           pre |-> stored, result |-> Success(Void), calls |-> <<>>]
        /\ nOps' = nOps + 1
        /\ UNCHANGED <<restarts, okWrites, callers>>

NextHeap == PatchHeap

SpecHeap == InitHeap /\ [][NextHeap]_vars

RECURSIVE Retained(_, _, _)

\* every key of base that patch does not hold is in result with base's
\* value, here and at every level the merge recurses into
Retained(base, patch, result) ==
    \A k \in DOMAIN base :
        IF k \notin DOMAIN patch
        THEN k \in DOMAIN result /\ result[k] = base[k]
        ELSE (k \notin Reserved /\ BothObjects(base, patch, k)) =>
                 /\ k \in DOMAIN result
                 /\ result[k].t = "object"
                 /\ Retained(base[k].fields, patch[k].fields, result[k].fields)

\* the document the store held before the last patch, as it was then and
\* as it is now
BaseThen == Deref(last.pre.heap, last.pre.current)
BaseNow == Deref(stored.heap, last.pre.current)

(* C28: after patch(p) on base document b, every key of b that p does not  *)
(* mention at that position, at the top level and at every nested level    *)
(* the merge recurses into, is in the stored document with b's value; and  *)
(* the object b itself, with every object it refers to, is as it was       *)
(* before the patch.                                                       *)
C28_MergeKeepsSiblingsAndBase ==
    last.op = "patch" =>
        /\ Retained(BaseThen.fields, last.data.value,
                    Deref(stored.heap, stored.current).fields)
        /\ BaseNow = BaseThen
        /\ \A a \in 1..Len(last.pre.heap) : stored.heap[a] = last.pre.heap[a]
        /\ stored.current \notin 1..Len(last.pre.heap)

\* a patch has changed a nested object next to a sibling the base keeps
C28_Witness ==
    /\ last.op = "patch"
    /\ BothObjects(BaseThen.fields, last.data.value, "a")
    /\ BothObjects(BaseThen.fields["a"].fields, last.data.value["a"].fields, "k")
    /\ {"b", "a"} \subseteq DOMAIN BaseThen.fields
    /\ "j" \in DOMAIN BaseThen.fields["a"].fields
    /\ "j" \in DOMAIN BaseThen.fields["a"].fields["k"].fields
    /\ Deref(stored.heap, stored.current).fields["a"].fields["k"].fields
           = [k |-> JPrim("2"), j |-> JPrim("1")]
    /\ BaseNow = BaseThen
    /\ BaseNow.fields["a"].fields["k"].fields["k"] = JPrim("1")

----------------------------------------------------------------------------
\* the collaborator methods in the order an operation may call them
CallOrder == <<"read", "write", "restart">>

(* C29: an operation calls each collaborator method at most once and in    *)
(* the order read, write, restart: its i-th call is to the i-th method of  *)
(* that order; an operation that fails validation has called nothing; one  *)
(* that fails with NotFound or AlreadyExists has made exactly one call, a  *)
(* read that succeeded, and no write.                                      *)
C29_CallsOnceInOrder ==
    last.op \in Mutating \cup {"get", "list"} =>
        /\ Len(last.calls) <= Len(CallOrder)
        /\ \A i \in 1..Len(last.calls) : last.calls[i].method = CallOrder[i]
        /\ last.result.tag = "ValidationError" => last.calls = <<>>
        /\ last.result.tag \in {"TenantNotFoundError", "TenantAlreadyExistsError"} =>
               last.calls = <<Call("read", "ok")>>

\* a removal ran through all three calls, the last of which failed
C29_Witness ==
    /\ last.op = "remove"
    /\ Len(last.calls) = 3
    /\ last.calls[2] = Call("write", "ok")
    /\ last.calls[3].method = "restart"
    /\ last.result.tag = "GatewayError"

----------------------------------------------------------------------------
(* Documents of any shape: the path to the tenant sub-map absent at each   *)
(* level or null above the sub-map, and sub-maps holding null or a number  *)
(* where a record is expected.  The operations are those of Spec, one per  *)
(* document.                                                               *)

PathlessDocs ==
    { EmptyObj,
      [channels |-> JNull],
      [channels |-> EmptyObj],
      [channels |-> [slack |-> JNull]],
      [channels |-> [slack |-> EmptyObj]],
      [channels |-> [slack |-> [channels |-> EmptyObj]]] }

OddSubMaps ==
    { IdA :> JNull,
      IdA :> JPrim("5"),
      IdA :> JPrim("0"),
      (IdA :> AcmeRecord) @@ (IdB :> JNull),
      (IdA :> AcmeRecord) @@ (IdB :> JPrim("5")) }

OddDocs == PathlessDocs \cup {[channels |-> [slack |-> [channels |-> sub]]] : sub \in OddSubMaps}

InitOdd ==
    /\ stored \in OddDocs
    /\ last = NoOp
    /\ restarts = 0
    /\ okWrites = 0
    /\ nOps = 0
    /\ callers = EmptyObj

\* one operation on the document drawn
NextOdd == last.op = "none" /\ Next

SpecOdd == InitOdd /\ [][NextOdd]_vars

\* the ways an operation is specified to end
TypedResults ==
    {"Success", "ValidationError", "TenantNotFoundError", "TenantAlreadyExistsError",
     "ConfigReadError", "ConfigWriteError", "GatewayError"}

(* C30: whatever document the store returns (the tenant path missing at    *)
(* any level, a sub-map entry that is null or not an object) and whatever  *)
(* the input, each of list, get, add, update, pause, activate and remove   *)
(* ends in success or in one of the typed failures.                        *)
C30_FailuresAreValues ==
    last.op \in Mutating \cup {"get", "list"} => last.result.tag \in TypedResults

----------------------------------------------------------------------------
(* The in-memory store and the documents its caller holds.  The caller     *)
(* builds the initial document, keeps every document read() returned and   *)
(* every document it passed to write(), and may change any object it can   *)
(* reach from them.  callers.held is the set of those documents'           *)
(* addresses, callers.written the value of the last document given to the  *)
(* store.                                                                  *)

MaxStoreOps == 3

\* structuredClone(value): a deep copy built from fresh objects
structuredClone(heap, addr) == Alloc(heap, Deref(heap, addr).fields)

\* write keeping the caller's object: current = config
memoryWriteByReference(heap, config) == [heap |-> heap, addr |-> config]

\* current = structuredClone(config)
memoryWrite(heap, config) == structuredClone(heap, config)

\* read: () => Effect.succeed(structuredClone(current))
memoryRead(heap, current) == structuredClone(heap, current)

StoreDocs ==
    { [a |-> JObj([k |-> JPrim("1")]), b |-> JPrim("1")],
      [b |-> JPrim("2")] }

\* the caller builds initial; let current = structuredClone(initial)
InitStore ==
    /\ \E initial \in StoreDocs :
          LET mine == Alloc(<<>>, initial)
              kept == structuredClone(mine.heap, mine.addr)
          IN  /\ stored = [heap |-> kept.heap, current |-> kept.addr]
              /\ callers = [held |-> {mine.addr}, written |-> JObj(initial)]
    /\ last = NoOp
    /\ restarts = 0
    /\ okWrites = 0
    /\ nOps = 0

RECURSIVE ReachFrom(_, _)

\* the objects reachable from the objects at addrs
ReachFrom(heap, addrs) ==
    LET step == addrs \cup
                UNION {{heap[a][key].addr : key \in {k \in DOMAIN heap[a] : heap[a][k].t = "ref"}} :
                       a \in addrs}
    IN  IF step = addrs THEN addrs ELSE ReachFrom(heap, step)

StoreStep(op, data, heap, current, held, written, result, writes) ==
    /\ nOps < MaxStoreOps
    /\ stored' = [heap |-> heap, current |-> current]
    /\ callers' = [held |-> held, written |-> written]
    /\ last' = [op |-> op, id |-> EmptyId, data |-> data, pre |-> stored,
                result |-> result, calls |-> <<>>]
    /\ nOps' = nOps + 1
    /\ okWrites' = okWrites + writes
    /\ UNCHANGED restarts

\* const config = yield* store.read(): the caller keeps what it got
StoreRead ==
    LET r == memoryRead(stored.heap, stored.current)
    IN  StoreStep("read", EmptyObj, r.heap, stored.current,
                  callers.held \cup {r.addr}, callers.written,
                  Success(Deref(r.heap, r.addr)), 0)

\* yield* store.write(config) with a document the caller holds
StoreWrite ==
    \E config \in callers.held :
        LET w == memoryWrite(stored.heap, config)
        IN  StoreStep("write", [addr |-> config], w.heap, w.addr,
                      callers.held, Deref(stored.heap, config), Success(Void), 1)

\* object[key] = 9 on an object the caller can reach
CallerChanges ==
    \E object \in ReachFrom(stored.heap, callers.held), key \in {"b", "k"} :
        StoreStep("change", [addr |-> object, key |-> key],
                  Put(stored.heap, object, key, JPrim("9")), stored.current,
                  callers.held, callers.written, Success(Void), 0)

NextStore == StoreRead \/ StoreWrite \/ CallerChanges

SpecStore == InitStore /\ [][NextStore]_vars

\* the document a read() would return now
Current == Deref(stored.heap, stored.current)

(* C31: whatever the caller changes in the initial document, in a document *)
(* read() returned or in a document it passed to write(), the store holds  *)
(* and read() returns exactly the last document written, as it was when    *)
(* written, or the initial document as it was at construction.             *)
C31_StoreIsolatedFromCallers ==
    /\ Current = callers.written
    /\ last.op = "read" => last.result = Success(callers.written)
    /\ last.op = "change" => Current = Deref(last.pre.heap, last.pre.current)

\* the caller has changed a nested object of a document it wrote earlier,
\* and the store still holds what was written
C31_Witness ==
    /\ last.op = "change"
    /\ okWrites >= 1
    /\ \E w \in callers.held :
          /\ last.data.addr \in ReachFrom(stored.heap, {w}) \ {w}
          /\ Deref(last.pre.heap, w) = callers.written
          /\ Deref(stored.heap, w) # callers.written
    /\ Current = callers.written

----------------------------------------------------------------------------
(* Two documents side by side: the store holds one, callers.other is a     *)
(* second one, and a read operation is run against each.                   *)

\* sub-maps over the tenants a and b: a's entry absent or a record, b's
\* entry absent, a record, null or a number
PairSubMaps ==
    {Spread(a, b) :
        a \in {EmptyObj, IdA :> AcmeRecord, IdA :> LegacyRecord},
        b \in {EmptyObj, IdB :> AcmeRecord, IdB :> LegacyRecord, IdB :> JNull, IdB :> JPrim("5")}}

PairDocs ==
    {[channels |-> [slack |-> [channels |-> sub]]] : sub \in PairSubMaps}
    \cup {[gateway |-> [port |-> 18789],
           channels |-> [discord |-> [enabled |-> FALSE],
                         slack |-> [groupPolicy |-> "open", channels |-> sub]]] :
          sub \in PairSubMaps}

InitPair ==
    /\ stored \in PairDocs
    /\ \E other \in PairDocs : callers = [other |-> other]
    /\ last = NoOp
    /\ restarts = 0
    /\ okWrites = 0
    /\ nOps = 0

\* getTenant(id) against each of the two documents
GetBoth ==
    \E id \in {IdA, IdB, PaddedA, Constructor} :
        /\ last.op = "none"
        /\ last' = [op |-> "get", id |-> id,
                    data |-> [other |-> getTenant(callers.other, id, "ok").result],
                    pre |-> stored, result |-> getTenant(stored, id, "ok").result,
                    calls |-> <<Call("read", "ok")>>]
        /\ nOps' = nOps + 1
        /\ UNCHANGED <<stored, restarts, okWrites, callers>>

\* listTenants() against each of the two documents
ListBoth ==
    /\ last.op = "none"
    /\ last' = [op |-> "list", id |-> EmptyId,
                data |-> [other |-> listTenants(callers.other, "ok").result],
                pre |-> stored, result |-> listTenants(stored, "ok").result,
                calls |-> <<Call("read", "ok")>>]
    /\ nOps' = nOps + 1
    /\ UNCHANGED <<stored, restarts, okWrites, callers>>

NextPair == GetBoth \/ ListBoth

SpecPair == InitPair /\ [][NextPair]_vars

\* the two documents hold the same thing for tenant id: the same entry, or
\* none
AgreeOn(id) ==
    LET mine == getSlackChannels(stored)
        theirs == getSlackChannels(callers.other)
    IN  /\ id \in DOMAIN mine <=> id \in DOMAIN theirs
        /\ id \in DOMAIN mine => mine[id] = theirs[id]

\* the records a list result holds for tenant id
ListedFor(result, id) == {r \in result.value : r.id = id}

(* C32: for two documents that agree on a tenant's stored record, however  *)
(* they differ in the other tenants' entries and in unrelated keys, get of *)
(* that tenant gives equal results on both, and list gives on both the     *)
(* same record for that tenant.                                            *)
C32_ReadsDependOnOwnRecordOnly ==
    /\ (last.op = "get" /\ AgreeOn(Trim(last.id))) => last.result = last.data.other
    /\ last.op = "list" =>
           \A id \in {IdA, IdB} :
               (AgreeOn(id) /\ id \in DOMAIN getSlackChannels(stored)) =>
                   /\ last.result.tag = "Success"
                   /\ last.data.other.tag = "Success"
                   /\ ListedFor(last.result, id) = ListedFor(last.data.other, id)
                   /\ ListedFor(last.result, id) # {}

----------------------------------------------------------------------------
(* The JSON-file storage backend.  The store is a file: stored is what the *)
(* file system holds at filePath, either a JSON object (kind "object",     *)
(* with its keys and values), the JSON text null, text that JSON.parse     *)
(* rejects, or a file that readFileSync cannot read.  Keys are sequences   *)
(* of characters, as ids are.                                              *)

MaxStorageOps == 2

StorageReadError(key) == [tag |-> "StorageReadError", key |-> key]
StorageWriteError(key) == [tag |-> "StorageWriteError", key |-> key]

ObjectFile(store) == [kind |-> "object", store |-> store]

\* try { return JSON.parse(fs.readFileSync(filePath)) } catch { return {} }
readStore(file) ==
    IF file.kind \in {"unreadable", "unparsable"} THEN ObjectFile(EmptyObj) ELSE file

\* get: (store[key] as T) ?? null; a throw inside try becomes StorageReadError
storageGet(file, key) ==
    LET read == readStore(file)
    IN  IF read.kind # "object" THEN Outcome(StorageReadError(key), <<>>, file)
        ELSE Outcome(Success(IF key \in DOMAIN read.store THEN read.store[key] ELSE JNull),
                     <<>>, file)

\* store[key] = value or delete store[key], then writeStore(store)
storageChange(file, key, changed, wr) ==
    IF wr # "ok" THEN Outcome(StorageWriteError(key), <<Call("write", wr)>>, file)
    ELSE Outcome(Success(Void), <<Call("write", "ok")>>, ObjectFile(changed))

storageSet(file, key, value, wr) ==
    LET read == readStore(file)
    IN  IF read.kind # "object" THEN Outcome(StorageWriteError(key), <<>>, file)
        ELSE storageChange(file, key, Spread(read.store, Single(key, value)), wr)

storageDelete(file, key, wr) ==
    LET read == readStore(file)
    IN  IF read.kind # "object" THEN Outcome(StorageWriteError(key), <<>>, file)
        ELSE storageChange(file, key, Without(read.store, key), wr)

\* Object.keys(store).filter((k) => !prefix || k.startsWith(prefix))
storageList(file, prefix) ==
    LET read == readStore(file)
    IN  IF read.kind # "object"
        THEN Outcome(StorageReadError(IF prefix = <<>> THEN <<"*">> ELSE prefix), <<>>, file)
        ELSE Outcome(Success({k \in DOMAIN read.store : prefix = <<>> \/ StartsWith(k, prefix)}),
                     <<>>, file)

StorageKeys == {<<"k", "1">>, <<"t", "1">>}

StorageFiles ==
    {[kind |-> "unreadable"], [kind |-> "unparsable"], [kind |-> "null"]}
    \cup {ObjectFile(s) : s \in UNION {[K -> {JPrim("1"), JPrim("2")}] : K \in SUBSET StorageKeys}}

InitStorage ==
    /\ stored \in StorageFiles
    /\ last = NoOp
    /\ restarts = 0
    /\ okWrites = 0
    /\ nOps = 0
    /\ callers = EmptyObj

StorageStep(op, key, data, outcome) ==
    /\ nOps < MaxStorageOps
    /\ stored' = outcome.doc
    /\ last' = [op |-> op, id |-> key, data |-> data, pre |-> stored,
                result |-> outcome.result, calls |-> outcome.calls]
    /\ okWrites' = okWrites + Count(outcome.calls, "write", TRUE)
    /\ nOps' = nOps + 1
    /\ UNCHANGED <<restarts, callers>>

StorageGet ==
    \E key \in StorageKeys : StorageStep("storage.get", key, EmptyObj, storageGet(stored, key))

StorageSet ==
    \E key \in StorageKeys, value \in {JPrim("1"), JPrim("2")}, wr \in {"ok", "ENOSPC"} :
        StorageStep("storage.set", key, [value |-> value], storageSet(stored, key, value, wr))

StorageDelete ==
    \E key \in StorageKeys, wr \in {"ok", "ENOSPC"} :
        StorageStep("storage.delete", key, EmptyObj, storageDelete(stored, key, wr))

StorageList ==
    \E prefix \in {<<>>, <<"k">>} :
        StorageStep("storage.list", prefix, EmptyObj, storageList(stored, prefix))

NextStorage == StorageGet \/ StorageSet \/ StorageDelete \/ StorageList

SpecStorage == InitStorage /\ [][NextStorage]_vars

\* the file could not be read, or could not be parsed
Unreadable(file) == file.kind \in {"unreadable", "unparsable"}

(* C33: when the backing file cannot be read or parsed, get and list fail  *)
(* with StorageReadError (they return neither null nor an empty list), and *)
(* set and delete leave the file as it is (they do not put in its place a  *)
(* store holding only the new key).                                        *)
C33_UnreadableFileReported ==
    /\ (last.op \in {"storage.get", "storage.list"} /\ Unreadable(last.pre)) =>
           last.result.tag = "StorageReadError"
    /\ (last.op \in {"storage.set", "storage.delete"} /\ Unreadable(last.pre)) =>
           stored = last.pre

----------------------------------------------------------------------------
(* C34: the record a successful add(id, data) or update(id, data) returns  *)
(* is the record get(id) returns right afterwards, field for field, and    *)
(* its id is the id without surrounding whitespace, whatever id or         *)
(* channelName data carries.                                               *)
C34_ReturnedRecordIsReadBack ==
    (last.op \in {"add", "update"} /\ last.result.tag = "Success") =>
        /\ GetNow(last.id) = last.result
        /\ last.result.value.id = Addressed
        /\ last.result.value.channelName = ChannelPrefix \o Addressed

\* an add whose data carries another tenant's id and a channel name
C34_Witness ==
    /\ last.op = "add"
    /\ last.result.tag = "Success"
    /\ last.id = PaddedA
    /\ "id" \in DOMAIN last.data
    /\ last.data["id"] # Addressed
    /\ last.result.value.id = IdA
    /\ last.result.value.name = Text("Renamed")

----------------------------------------------------------------------------
(* C35: starting from a directory of records whose keys validateId accepts *)
(* unchanged, after any sequence of add, update, pause, activate and       *)
(* remove every key of the tenant sub-map is an id validateId accepts and  *)
(* returns unchanged, list returns exactly one record per key, and get of  *)
(* every listed record's id succeeds.                                      *)
C35_KeysStayValidAndListed ==
    /\ \A k \in DOMAIN After : Decision(k) = "accept" /\ Inner(k) = k
    /\ {r.id : r \in ListNow} = DOMAIN After
    /\ Cardinality(ListNow) = Cardinality(DOMAIN After)
    /\ \A r \in ListNow : GetNow(r.id).tag = "Success" /\ GetNow(r.id).value = r

\* two operations have run, the last an add under an id given with
\* surrounding whitespace, and the directory holds two tenants
C35_Witness ==
    /\ nOps >= 2
    /\ last.op = "add"
    /\ last.result.tag = "Success"
    /\ last.id = PaddedA
    /\ Cardinality(DOMAIN After) = 2
    /\ IdA \in DOMAIN After

----------------------------------------------------------------------------
(* C36: update, pause and activate leave the set of tenant ids as it was:  *)
(* the key set of the tenant sub-map after the call is the key set before  *)
(* it, whether the call succeeds or fails.                                 *)
C36_UpdateKeepsKeySet ==
    last.op \in {"update", "pause", "activate"} => DOMAIN After = DOMAIN Before

----------------------------------------------------------------------------
(* Pause, then activate or pause again.  callers.origin keeps the document *)
(* the store started with; the second call addresses the tenant the first  *)
(* one paused.                                                             *)

InitTrip ==
    /\ stored \in InitDocs
    /\ callers = [origin |-> stored]
    /\ last = NoOp
    /\ restarts = 0
    /\ okWrites = 0
    /\ nOps = 0

PauseFirst == last.op = "none" /\ Pause

ThenActivate ==
    /\ last.op = "pause" /\ nOps = 1 /\ last.result.tag = "Success"
    /\ Activate
    /\ last'.id = last.id

PauseAgain ==
    /\ last.op = "pause" /\ nOps = 1 /\ last.result.tag = "Success"
    /\ Pause
    /\ last'.id = last.id

NextTrip == PauseFirst \/ ThenActivate \/ PauseAgain

SpecTrip == InitTrip /\ [][NextTrip]_vars

\* what get(id) returned before the two calls
GetAtOrigin(id) == getTenant(callers.origin, id, "ok").result

(* C37: for a tenant that get reports as enabled (its stored record sets   *)
(* enabled true or omits it), pause(id) followed by activate(id) leaves    *)
(* get(id) equal to what it was before the two calls; and a second pause   *)
(* changes nothing in the document.                                        *)
C37_PauseActivateRoundTrip ==
    /\ (/\ last.op = "activate" /\ nOps = 2
        /\ last.result.tag = "Success"
        /\ GetAtOrigin(last.id).tag = "Success"
        /\ GetAtOrigin(last.id).value.enabled)
       => GetNow(last.id) = GetAtOrigin(last.id)
    /\ (last.op = "pause" /\ nOps = 2) => stored = last.pre


----------------------------------------------------------------------------
\* the document a second patch(patchData) would leave in the store
PatchedAgain == deepMerge(stored, last.data)

(* C38: applying the same patch twice equals applying it once: for every   *)
(* base document and patch (nested objects, arrays and reserved key names  *)
(* included), deepMerge(deepMerge(base, patch), patch) is structurally     *)
(* equal to deepMerge(base, patch).                                        *)
C38_PatchIdempotent == last.op = "patch" => PatchedAgain = stored

\* a patch carrying a reserved key has merged a nested object into the
\* object the base held and has changed it
C38_Witness ==
    /\ last.op = "patch"
    /\ BothObjects(last.pre, last.data, "a")
    /\ "constructor" \in DOMAIN last.data
    /\ stored["a"] # last.pre["a"]


----------------------------------------------------------------------------
(* The owner's changes through the HTTP binding, one request after         *)
(* another, each carrying the token; the file and the gateway do not fail  *)
(* here.                                                                   *)

MaxChanges == 2

OwnerCredentials ==
    [headers |-> [authorization |-> <<BearerMarker>> \o AUTH_TOKEN], query |-> EmptyObj]

OwnerRequest(params, query, body) == HttpRequest(OwnerCredentials, params, query, body)

ChangedIds == {ClientBob, ClientMike}

ChangeBodies == {[enabled |-> TRUE], [systemPrompt |-> "Blog and social media assistant"]}

InitChanges ==
    /\ stored \in HttpDocs
    /\ last = NoOp
    /\ restarts = 0
    /\ okWrites = 0
    /\ nOps = 0
    /\ callers = EmptyObj

\* one request served: the file holds o.doc afterwards
Change(route, req, o) ==
    /\ nOps < MaxChanges
    /\ stored' = o.doc
    /\ last' = [op |-> route, id |-> EmptyId, data |-> req, pre |-> stored,
                result |-> o.result, calls |-> o.calls]
    /\ restarts' = restarts + Count(o.calls, "restart", FALSE)
    /\ okWrites' = okWrites + Count(o.calls, "write", TRUE)
    /\ nOps' = nOps + 1
    /\ UNCHANGED callers

OwnerAdds ==
    \E body \in {[channelName |-> Bob], [channelName |-> <<"n", "e", "w">>, paid |-> FALSE]} :
        LET req == OwnerRequest(EmptyObj, EmptyObj, body)
        IN  Change("POST /api/customers", req, addCustomer(stored, req, "ok", "ok", "ok"))

OwnerEdits ==
    \E id \in ChangedIds, body \in ChangeBodies :
        LET req == OwnerRequest([id |-> id], EmptyObj, body)
        IN  Change("PATCH /api/customers/:id", req, editCustomer(stored, req, "ok", "ok", "ok"))

OwnerPauses ==
    \E id \in ChangedIds :
        LET req == OwnerRequest([id |-> id], EmptyObj, EmptyObj)
        IN  Change("POST /api/customers/:id/pause", req,
                   pauseCustomer(stored, req, "ok", "ok", "ok"))

OwnerActivates ==
    \E id \in ChangedIds :
        LET req == OwnerRequest([id |-> id], EmptyObj, EmptyObj)
        IN  Change("POST /api/customers/:id/activate", req,
                   activateCustomer(stored, req, "ok", "ok", "ok"))

OwnerRemoves ==
    \E id \in ChangedIds, hard \in {EmptyObj, [hard |-> "true"]} :
        LET req == OwnerRequest([id |-> id], hard, EmptyObj)
        IN  Change("DELETE /api/customers/:id", req,
                   removeCustomer(stored, req, "ok", "ok", "ok"))

NextChanges == OwnerAdds \/ OwnerEdits \/ OwnerPauses \/ OwnerActivates \/ OwnerRemoves

SpecChanges == InitChanges /\ [][NextChanges]_vars

\* the entry is marked deleted
MarkedDeleted(entry) == "deleted" \in DOMAIN entry /\ entry["deleted"] = TRUE

(* C39: in the HTTP binding a soft-deleted customer stays disabled: in     *)
(* every config reachable through the add, edit, pause, activate and       *)
(* remove routes, a channel entry with deleted = true has enabled = false. *)
C39_DeletedStaysDisabled ==
    \A name \in DOMAIN ChannelsObj(stored) :
        MarkedDeleted(ChannelsObj(stored)[name]) =>
            /\ "enabled" \in DOMAIN ChannelsObj(stored)[name]
            /\ ChannelsObj(stored)[name]["enabled"] = FALSE

====
